---- MODULE Spec2Model ----
(***************************************************************************)
(* Puzzle generation engine of the Sudoku book generator (src/sudoku.py):  *)
(* full-solution generation, the bitmask backtracking solver, the clue     *)
(* reducer and the batch loop, as a state machine.                         *)
(*                                                                         *)
(* Lists of the program are functions on 0..n-1, as in the source's        *)
(* indexing.  A digit mask (an int used as a bitset, bit d-1 for digit d)  *)
(* is the set of the digits whose bits are set.  An optional value is a    *)
(* sequence of length at most one: None is <<>>, a value v is <<v>>.       *)
(***************************************************************************)
EXTENDS Integers, Sequences, FiniteSets, TLC

None == <<>>

Some(v) == <<v>>

Val(o) == o[1]

Min(S) == CHOOSE x \in S : \A y \in S : x <= y

Abs(x) == IF x < 0 THEN -x ELSE x

(* range(n) *)
Range(n) == [i \in 0..(n - 1) |-> i]

(* range(a, b) *)
RangeFrom(a, b) == [i \in 0..(b - a - 1) |-> a + i]

ListLen(l) == Cardinality(DOMAIN l)

(* list concatenation a + b *)
Concat(a, b) ==
    [i \in 0..(ListLen(a) + ListLen(b) - 1) |->
        IF i < ListLen(a) THEN a[i] ELSE b[i - ListLen(a)]]

(***************************************************************************)
(* SudokuSpec and spec_for_size.                                           *)
(***************************************************************************)
SudokuSpec(size, block_rows, block_cols) ==
    [size |-> size, block_rows |-> block_rows, block_cols |-> block_cols]

SupportedSizes == {6, 9, 16}

(* [ret, raised]: the spec returned or the exception raised *)
spec_for_size(size) ==
    IF size = 6 THEN [ret |-> Some(SudokuSpec(6, 2, 3)), raised |-> None]
    ELSE IF size = 9 THEN [ret |-> Some(SudokuSpec(9, 3, 3)), raised |-> None]
    ELSE IF size = 16
    THEN [ret |-> Some(SudokuSpec(16, 4, 4)), raised |-> None]
    ELSE [ret |-> None, raised |-> Some("ValueError")]

(***************************************************************************)
(* The random source.  rng is the generator's state; every draw advances   *)
(* it, so the stream is a function of the seed alone.  randbelow, shuffle  *)
(* and randint follow random.Random: shuffle is the Fisher-Yates loop      *)
(*   for i in reversed(range(1, len(x))): j = randbelow(i + 1); swap       *)
(* and randint(a, b) is a + randbelow(b - a + 1).                          *)
(***************************************************************************)
RngNext(s) == (s * 75 + 74) % 65537

(* random.Random(seed): the state a seed starts the stream in *)
RngSeed(seed) == RngNext((seed * 25173 + 13849) % 65537)

(* one draw below n: [val, rng] *)
randbelow(rng, n) ==
    LET s == RngNext(rng) IN [val |-> (s \div 7) % n, rng |-> s]

randint(rng, a, b) ==
    LET d == randbelow(rng, b - a + 1) IN [val |-> a + d.val, rng |-> d.rng]

Swap(x, i, j) == [x EXCEPT ![i] = x[j], ![j] = x[i]]

RECURSIVE ShuffleFrom(_, _, _)
ShuffleFrom(rng, x, i) ==
    IF i < 1 THEN [items |-> x, rng |-> rng]
    ELSE LET d == randbelow(rng, i + 1)
         IN ShuffleFrom(d.rng, Swap(x, i, d.val), i - 1)

(* _shuffle(rng, items): [items, rng] *)
_shuffle(rng, items) == ShuffleFrom(rng, items, ListLen(items) - 1)

(***************************************************************************)
(* _pattern and _generate_full_solution.                                   *)
(***************************************************************************)
(* _pattern without the band term r // block_rows: a fault the properties
   of the generated grid are tested against *)
PatternWithoutBand(r, c, spec) ==
    (spec.block_cols * (r % spec.block_rows) + c) % spec.size

_pattern(r, c, spec) ==
    (spec.block_cols * (r % spec.block_rows) + (r \div spec.block_rows) + c)
        % spec.size

(* [_shuffle(rng, range(block)) for each of the n groups in turn], from
   group k on: [items, rng], items the list of the n shuffled lists *)
RECURSIVE ShuffleEach(_, _, _, _)
ShuffleEach(rng, n, block, k) ==
    IF k >= n THEN [items |-> Range(0), rng |-> rng]
    ELSE LET inner == _shuffle(rng, Range(block))
             rest == ShuffleEach(inner.rng, n, block, k + 1)
         IN [items |-> Concat([i \in {0} |-> inner.items], rest.items),
             rng |-> rest.rng]

(* [band * block + r for band in bands for r in <the band's shuffled range>] *)
ExpandGroups(bands, inners, block) ==
    [i \in 0..(ListLen(bands) * block - 1) |->
        bands[i \div block] * block + inners[i \div block][i % block]]

(* the grid built from the shuffled digits, rows and cols *)
BuildGrid(digits, rows, cols, spec) ==
    [i \in 0..(spec.size - 1) |->
        [j \in 0..(spec.size - 1) |-> digits[_pattern(rows[i], cols[j], spec)]]]

(* the grid _generate_full_solution returns for the given results of its
   shuffles *)
FullSolution(spec, digits, row_bands, row_inner, col_stacks, col_inner) ==
    BuildGrid(digits,
              ExpandGroups(row_bands, row_inner, spec.block_rows),
              ExpandGroups(col_stacks, col_inner, spec.block_cols),
              spec)

(* _generate_full_solution(spec, rng): [grid, rng] *)
_generate_full_solution(spec, rng) ==
    LET size == spec.size
        digits == _shuffle(rng, RangeFrom(1, size + 1))
        row_bands == _shuffle(digits.rng, Range(size \div spec.block_rows))
        row_inner == ShuffleEach(row_bands.rng, size \div spec.block_rows,
                                 spec.block_rows, 0)
        col_stacks == _shuffle(row_inner.rng, Range(size \div spec.block_cols))
        col_inner == ShuffleEach(col_stacks.rng, size \div spec.block_cols,
                                 spec.block_cols, 0)
    IN [grid |-> FullSolution(spec, digits.items, row_bands.items,
                              row_inner.items, col_stacks.items, col_inner.items),
        rng |-> col_inner.rng]

(***************************************************************************)
(* The solver: _box_index, _init_masks, _select_cell, _count_solutions,    *)
(* count_solutions.                                                        *)
(***************************************************************************)
_box_index(r, c, spec) ==
    (r \div spec.block_rows) * (spec.size \div spec.block_cols)
        + (c \div spec.block_cols)

Cells(spec) == (0..(spec.size - 1)) \X (0..(spec.size - 1))

(* [row_mask, col_mask, box_mask] of a grid *)
_init_masks(grid, spec) ==
    LET idx == 0..(spec.size - 1)
        Used(S) == {grid[p[1]][p[2]] : p \in {q \in S : grid[q[1]][q[2]] # 0}}
    IN [row_mask |-> [r \in idx |-> Used({p \in Cells(spec) : p[1] = r})],
        col_mask |-> [c \in idx |-> Used({p \in Cells(spec) : p[2] = c})],
        box_mask |-> [b \in idx |->
            Used({p \in Cells(spec) : _box_index(p[1], p[2], spec) = b})]]

(* the candidates without the box mask: a fault the properties of the
   solver are tested against *)
CandidatesWithoutBox(st, spec, full_mask, r, c) ==
    full_mask \ (st.row_mask[r] \cup st.col_mask[c])

(* full_mask & ~(row_mask[r] | col_mask[c] | box_mask[box]) *)
Candidates(st, spec, full_mask, r, c) ==
    full_mask \ (st.row_mask[r] \cup st.col_mask[c]
                    \cup st.box_mask[_box_index(r, c, spec)])

(* the scan of _select_cell from cell number k on (row-major), carrying
   best and best_count: None or Some([r, c, mask]) *)
RECURSIVE SelectFrom(_, _, _, _, _, _)
SelectFrom(st, spec, full_mask, k, best, best_count) ==
    IF k >= spec.size * spec.size THEN best
    ELSE LET r == k \div spec.size
             c == k % spec.size
         IN IF st.grid[r][c] # 0
            THEN SelectFrom(st, spec, full_mask, k + 1, best, best_count)
            ELSE LET mask == Candidates(st, spec, full_mask, r, c)
                     count == Cardinality(mask)
                 IN IF count = 0 THEN Some([r |-> r, c |-> c, mask |-> {}])
                    ELSE IF count < best_count
                    THEN IF count = 1 THEN Some([r |-> r, c |-> c, mask |-> mask])
                         ELSE SelectFrom(st, spec, full_mask, k + 1,
                                         Some([r |-> r, c |-> c, mask |-> mask]),
                                         count)
                    ELSE SelectFrom(st, spec, full_mask, k + 1, best, best_count)

_select_cell(st, spec, full_mask) ==
    SelectFrom(st, spec, full_mask, 0, None, spec.size + 1)

(* grid[r][c] = val; row_mask[r] |= bit; col_mask[c] |= bit; box_mask[..] |= bit *)
Place(st, spec, r, c, val) ==
    [st EXCEPT !.grid[r][c] = val,
               !.row_mask[r] = @ \cup {val},
               !.col_mask[c] = @ \cup {val},
               !.box_mask[_box_index(r, c, spec)] = @ \cup {val}]

(* m ^ bit *)
Toggle(m, val) == IF val \in m THEN m \ {val} ELSE m \cup {val}

(* row_mask[r] ^= bit; col_mask[c] ^= bit; box_mask[..] ^= bit; grid[r][c] = 0 *)
Unplace(st, spec, r, c, val) ==
    [st EXCEPT !.row_mask[r] = Toggle(@, val),
               !.col_mask[c] = Toggle(@, val),
               !.box_mask[_box_index(r, c, spec)] = Toggle(@, val),
               !.grid[r][c] = 0]

(***************************************************************************)
(* _count_solutions works on the solver state st = [grid, row_mask,        *)
(* col_mask, box_mask, node_counter, calls] (calls counts the invocations  *)
(* of _count_solutions; the program keeps no such number when node_limit   *)
(* is None).  Its result is [st, raised, ret]: raised is TRUE when         *)
(* SearchBudgetExceeded left the call, and then st is the state the        *)
(* unwinding leaves behind, since no frame restores anything on the way    *)
(* out.                                                                    *)
(***************************************************************************)
RECURSIVE _count_solutions(_, _, _, _, _)
RECURSIVE CandidateLoop(_, _, _, _, _, _, _, _, _)

(* the while mask: loop of _count_solutions at cell (r, c) *)
CandidateLoop(st, spec, full_mask, limit, node_limit, r, c, mask, count) ==
    IF mask = {} THEN [st |-> st, raised |-> FALSE, ret |-> count]
    ELSE LET val == Min(mask)
             sub == _count_solutions(Place(st, spec, r, c, val), spec,
                                     full_mask, limit, node_limit)
         IN IF sub.raised THEN sub
            ELSE LET st2 == Unplace(sub.st, spec, r, c, val)
                     count2 == count + sub.ret
                 IN IF count2 >= limit
                    THEN [st |-> st2, raised |-> FALSE, ret |-> count2]
                    ELSE CandidateLoop(st2, spec, full_mask, limit, node_limit,
                                       r, c, mask \ {val}, count2)

_count_solutions(st, spec, full_mask, limit, node_limit) ==
    LET st1 == IF node_limit # None
               THEN [st EXCEPT !.node_counter = @ + 1, !.calls = @ + 1]
               ELSE [st EXCEPT !.calls = @ + 1]
    IN IF node_limit # None /\ st1.node_counter > Val(node_limit)
       THEN [st |-> st1, raised |-> TRUE, ret |-> 0]
       ELSE LET choice == _select_cell(st1, spec, full_mask)
            IN IF choice = None THEN [st |-> st1, raised |-> FALSE, ret |-> 1]
               ELSE IF Val(choice).mask = {}
               THEN [st |-> st1, raised |-> FALSE, ret |-> 0]
               ELSE CandidateLoop(st1, spec, full_mask, limit, node_limit,
                                  Val(choice).r, Val(choice).c,
                                  Val(choice).mask, 0)

(* the search with node_counter = [1] at its start: a fault the properties
   of the node budget are tested against *)
SearchCountingFromOne(grid, spec, limit, node_limit) ==
    LET m == _init_masks(grid, spec)
    IN _count_solutions(
           [grid |-> grid, row_mask |-> m.row_mask, col_mask |-> m.col_mask,
            box_mask |-> m.box_mask, node_counter |-> 1, calls |-> 0],
           spec, 1..spec.size, limit, node_limit)

(* the search of count_solutions: [st, raised, ret] *)
Search(grid, spec, limit, node_limit) ==
    LET m == _init_masks(grid, spec)
    IN _count_solutions(
           [grid |-> grid, row_mask |-> m.row_mask, col_mask |-> m.col_mask,
            box_mask |-> m.box_mask, node_counter |-> 0, calls |-> 0],
           spec, 1..spec.size, limit, node_limit)

(* count_solutions(grid, spec, limit, node_limit): [ret, grid, calls], ret
   the returned value (None for SearchBudgetExceeded), grid the caller's grid
   object after the call and calls the number of calls of _count_solutions
   made *)
count_solutions(grid, spec, limit, node_limit) ==
    LET res == Search(grid, spec, limit, node_limit)
    IN [ret |-> IF res.raised THEN None ELSE Some(res.ret),
        grid |-> res.st.grid,
        calls |-> res.st.calls]

_count_clues(grid) ==
    Cardinality({p \in (DOMAIN grid) \X (DOMAIN grid) : grid[p[1]][p[2]] # 0})


(***************************************************************************)
(* The difficulty tables.  The rows of 6, 9 and 16 are the program's.  The *)
(* rows of 2 and 4 are the scale models the generator is explored on: a    *)
(* 1 x 2-block grid of 4 cells and a 2 x 2-block grid of 16 cells, on      *)
(* which the solver's whole search is enumerable.  They keep the shape of  *)
(* the program's rows: clue ranges that fall with the difficulty, Easy     *)
(* without budgets, harder rows with a node limit, a time limit or both.   *)
(* Times are in tenths of a second.                                        *)
(***************************************************************************)
Difficulties == {"Easy", "Medium", "Hard", "Expert"}

Row(easy, medium, hard, expert) ==
    [Easy |-> easy, Medium |-> medium, Hard |-> hard, Expert |-> expert]

CLUE_RANGES ==
    (2 :> Row(<<1, 3>>, <<0, 1>>, <<0, 1>>, <<0, 0>>))
    @@ (4 :> Row(<<10, 12>>, <<6, 8>>, <<4, 6>>, <<4, 5>>))
    @@ (6 :> Row(<<24, 28>>, <<20, 23>>, <<16, 19>>, <<12, 15>>))
    @@ (9 :> Row(<<36, 45>>, <<30, 35>>, <<24, 29>>, <<17, 23>>))
    @@ (16 :> Row(<<160, 190>>, <<130, 159>>, <<100, 129>>, <<80, 99>>))

SOLVER_NODE_LIMITS ==
    (2 :> Row(None, Some(2), None, None))
    @@ (4 :> Row(None, Some(10), None, Some(3)))
    @@ (6 :> Row(None, None, None, None))
    @@ (9 :> Row(None, Some(20000), Some(12000), Some(7000)))
    @@ (16 :> Row(Some(18000), Some(12000), Some(7000), Some(4500)))

PUZZLE_TIME_LIMITS_SEC ==
    (2 :> Row(None, Some(1), None, Some(1)))
    @@ (4 :> Row(Some(1), None, None, None))
    @@ (6 :> Row(None, None, None, None))
    @@ (9 :> Row(None, Some(12), Some(14), Some(18)))
    @@ (16 :> Row(Some(8), Some(10), Some(12), Some(15)))

MAX_GENERATION_TRIES ==
    (2 :> Row(2, 2, 2, 2))
    @@ (4 :> Row(2, 2, 2, 2))
    @@ (6 :> Row(35, 35, 35, 35))
    @@ (9 :> Row(35, 35, 35, 35))
    @@ (16 :> Row(35, 35, 35, 35))

(***************************************************************************)
(* Bounds of the exploration.                                              *)
(***************************************************************************)
(* the seeds explored are 0..NumSeeds-1 *)
NumSeeds == 4

(* count is at most MaxCount *)
MaxCount == 2

(* time.perf_counter reads at most MaxClock *)
MaxClock == 1

(* the grids generate_puzzles is explored on *)
ModelSpecs == {SudokuSpec(2, 1, 2), SudokuSpec(4, 2, 2)}

(* a grid size without a row in the tables, and a difficulty without an
   entry in the rows *)
UnknownSpecs == {SudokuSpec(3, 1, 3)}

UnknownDifficulties == {"Extreme"}

(***************************************************************************)
(* The state: the arguments of generate_puzzles, the random source, the    *)
(* clock, and the locals of generate_puzzles, generate_puzzle and          *)
(* _remove_numbers, with pc the place the program is at.                   *)
(***************************************************************************)
VARIABLES
    args,          \* [count, spec, difficulty, seed]
    pc,            \* the place the program is at
    rng,           \* state of the random source
    now,           \* last value read from time.perf_counter
    policy,        \* [low, high, node_limit, time_limit_sec, max_tries]
    idx,           \* generate_puzzles: loop index
    target,        \* generate_puzzles: target clue count of puzzle idx
    puzzles,       \* generate_puzzles: puzzles
    solutions,     \* generate_puzzles: solutions
    events,        \* the calls made to warn_cb and progress_cb, in order
    tries,         \* generate_puzzle: attempts begun
    best,          \* generate_puzzle: best (None or Some(outcome))
    best_diff,     \* generate_puzzle: best_diff
    outcome,       \* generate_puzzle: the value returned (None until it returns)
    solution,      \* generate_puzzle: solution
    deadline_ts,   \* generate_puzzle: deadline_ts
    puzzle,        \* _remove_numbers: puzzle
    positions,     \* _remove_numbers: positions
    k,             \* _remove_numbers: index of the next position
    clues,         \* _remove_numbers: clues
    budget_hits,   \* _remove_numbers: budget_hits
    timed_out,     \* _remove_numbers: timed_out
    history,       \* per puzzle, the outcomes of the attempts made for it
    returned,      \* per puzzle, the outcome generate_puzzle returned for it
    first,         \* the result of an earlier run with the same arguments
    input,         \* the arguments of a function called on its own
    output         \* its result

vars ==
    <<args, pc, rng, now, policy, idx, target, puzzles, solutions, events,
      tries, best, best_diff, outcome, solution, deadline_ts, puzzle,
      positions, k, clues, budget_hits, timed_out, history, returned, first,
      input, output>>

batchVars == <<idx, target, puzzles, solutions, events>>

tryVars == <<tries, best, best_diff, outcome, solution, deadline_ts>>

sweepVars == <<puzzle, positions, k, clues, budget_hits, timed_out>>

ghostVars == <<history, returned>>

callVars == <<input, output>>

EmptyGrid == Range(0)

(* the locals before generate_puzzles has run *)
Fresh ==
    /\ now = 0
    /\ policy = None
    /\ idx = 0
    /\ target = 0
    /\ puzzles = <<>>
    /\ solutions = <<>>
    /\ events = <<>>
    /\ tries = 0
    /\ best = None
    /\ best_diff = None
    /\ outcome = None
    /\ solution = EmptyGrid
    /\ deadline_ts = None
    /\ puzzle = EmptyGrid
    /\ positions = Range(0)
    /\ k = 0
    /\ clues = 0
    /\ budget_hits = 0
    /\ timed_out = FALSE
    /\ history = <<>>
    /\ returned = <<>>
    /\ first = None

Init ==
    /\ \E count \in 0..MaxCount, spec \in ModelSpecs \cup UnknownSpecs,
          difficulty \in Difficulties \cup UnknownDifficulties,
          seed \in 0..(NumSeeds - 1) :
          /\ args = [count |-> count, spec |-> spec, difficulty |-> difficulty,
                     seed |-> seed]
          /\ rng = RngSeed(seed)
    /\ pc = "start"
    /\ Fresh
    /\ input = None
    /\ output = None

(* a reading of time.perf_counter: monotonic, at most MaxClock *)
ClockReadings == {t \in now..(now + 1) : t <= MaxClock}

(* the checks made after a first random draw: a fault the fail-fast
   property is tested against *)
ValidateAfterDraw ==
    /\ pc = "start"
    /\ rng' = RngNext(rng)
    /\ IF args.spec.size \notin DOMAIN CLUE_RANGES
       THEN pc' = "ValueError" /\ policy' = policy
       ELSE IF args.difficulty \notin DOMAIN CLUE_RANGES[args.spec.size]
       THEN pc' = "ValueError" /\ policy' = policy
       ELSE /\ pc' = "batch"
            /\ policy' = Some(
                 [low |-> CLUE_RANGES[args.spec.size][args.difficulty][1],
                  high |-> CLUE_RANGES[args.spec.size][args.difficulty][2],
                  node_limit |-> SOLVER_NODE_LIMITS[args.spec.size][args.difficulty],
                  time_limit_sec |->
                      PUZZLE_TIME_LIMITS_SEC[args.spec.size][args.difficulty],
                  max_tries |-> MAX_GENERATION_TRIES[args.spec.size][args.difficulty]])
    /\ UNCHANGED <<args, now, first>>
    /\ UNCHANGED <<batchVars, tryVars, sweepVars, ghostVars, callVars>>

(***************************************************************************)
(* generate_puzzles, lines 333-343: the checks of size and difficulty and  *)
(* the look-up of the difficulty's row.                                    *)
(***************************************************************************)
Validate ==
    /\ pc = "start"
    /\ IF args.spec.size \notin DOMAIN CLUE_RANGES
       THEN pc' = "ValueError" /\ policy' = policy
       ELSE IF args.difficulty \notin DOMAIN CLUE_RANGES[args.spec.size]
       THEN pc' = "ValueError" /\ policy' = policy
       ELSE /\ pc' = "batch"
            /\ policy' = Some(
                 [low |-> CLUE_RANGES[args.spec.size][args.difficulty][1],
                  high |-> CLUE_RANGES[args.spec.size][args.difficulty][2],
                  node_limit |-> SOLVER_NODE_LIMITS[args.spec.size][args.difficulty],
                  time_limit_sec |->
                      PUZZLE_TIME_LIMITS_SEC[args.spec.size][args.difficulty],
                  max_tries |-> MAX_GENERATION_TRIES[args.spec.size][args.difficulty]])
    /\ UNCHANGED <<args, rng, now, first>>
    /\ UNCHANGED <<batchVars, tryVars, sweepVars, ghostVars, callVars>>

(***************************************************************************)
(* generate_puzzles, lines 346-348: the head of the loop draws the target  *)
(* and calls generate_puzzle (lines 303-304).                              *)
(***************************************************************************)
(* a target drawn from low..high+1: a fault the properties of the clue
   counts are tested against *)
DrawTargetPastHigh(r, low, high) == randint(r, low, high + 1)

(* line 347: [val, rng] *)
DrawTarget(r, low, high) == randint(r, low, high)

StartPuzzle ==
    /\ pc = "batch"
    /\ idx < args.count
    /\ LET d == DrawTarget(rng, Val(policy).low, Val(policy).high)
       IN target' = d.val /\ rng' = d.rng
    /\ tries' = 0
    /\ best' = None
    /\ best_diff' = None
    /\ outcome' = None
    /\ history' = Append(history, <<>>)
    /\ pc' = "try"
    /\ UNCHANGED <<args, now, policy, first, idx, puzzles, solutions, events,
                   solution, deadline_ts, returned>>
    /\ UNCHANGED <<sweepVars, callVars>>

(* a deadline one tick after the attempt's start whatever the time limit,
   None included: a fault the properties of the untimed difficulties are
   tested against *)
DeadlineAlways(time_limit_sec, t) == Some(t + 1)

(* lines 308-310: deadline_ts, from the clock reading t *)
Deadline(time_limit_sec, t) ==
    IF time_limit_sec # None THEN Some(t + Val(time_limit_sec)) ELSE None

(***************************************************************************)
(* generate_puzzle, lines 305-318, and _remove_numbers, lines 269-274: an  *)
(* attempt generates a solution, copies it, fixes the deadline and begins  *)
(* the sweep.                                                              *)
(***************************************************************************)
(* an attempt that is not counted: a fault the bound on the attempts is
   tested against *)
StartAttemptUncounted ==
    /\ pc = "try"
    /\ tries < Val(policy).max_tries
    /\ LET full == _generate_full_solution(args.spec, rng)
           size == args.spec.size
           cells == [i \in 0..(size * size - 1) |-> <<i \div size, i % size>>]
           order == _shuffle(full.rng, cells)
       IN /\ solution' = full.grid
          /\ puzzle' = full.grid
          /\ positions' = order.items
          /\ rng' = order.rng
          /\ clues' = _count_clues(full.grid)
    /\ \E t \in (IF Val(policy).time_limit_sec # None
                 THEN ClockReadings ELSE {now}) :
          /\ now' = t
          /\ deadline_ts' = Deadline(Val(policy).time_limit_sec, t)
    /\ k' = 0
    /\ budget_hits' = 0
    /\ timed_out' = FALSE
    /\ pc' = "sweep"
    /\ UNCHANGED <<args, policy, first, tries, best, best_diff, outcome>>
    /\ UNCHANGED <<batchVars, ghostVars, callVars>>

StartAttempt ==
    /\ pc = "try"
    /\ tries < Val(policy).max_tries
    /\ LET full == _generate_full_solution(args.spec, rng)
           size == args.spec.size
           cells == [i \in 0..(size * size - 1) |-> <<i \div size, i % size>>]
           order == _shuffle(full.rng, cells)
       IN /\ solution' = full.grid
          /\ puzzle' = full.grid
          /\ positions' = order.items
          /\ rng' = order.rng
          /\ clues' = _count_clues(full.grid)
    /\ \E t \in (IF Val(policy).time_limit_sec # None
                 THEN ClockReadings ELSE {now}) :
          /\ now' = t
          /\ deadline_ts' = Deadline(Val(policy).time_limit_sec, t)
    /\ tries' = tries + 1
    /\ k' = 0
    /\ budget_hits' = 0
    /\ timed_out' = FALSE
    /\ pc' = "sweep"
    /\ UNCHANGED <<args, policy, first, best, best_diff, outcome>>
    /\ UNCHANGED <<batchVars, ghostVars, callVars>>

(* generate_puzzle, line 329: the loop is exhausted, best is returned *)
ReturnBest ==
    /\ pc = "try"
    /\ tries >= Val(policy).max_tries
    /\ outcome' = best
    /\ pc' = "emit"
    /\ UNCHANGED <<args, rng, now, policy, first,
                   tries, best, best_diff, solution, deadline_ts>>
    /\ UNCHANGED <<batchVars, sweepVars, ghostVars, callVars>>

(***************************************************************************)
(* _remove_numbers, lines 275-291: one pass of the loop body.              *)
(***************************************************************************)
(* lines 283-291: the tentative removal at (r, c): [puzzle, clues, budget_hits] *)
TryRemove(grid, spec, r, c, node_limit, cl, hits) ==
    LET backup == grid[r][c]
        res == count_solutions([grid EXCEPT ![r][c] = 0], spec, 2, node_limit)
    IN IF res.ret # Some(1)
       THEN [puzzle |-> [res.grid EXCEPT ![r][c] = backup],
             clues |-> cl,
             budget_hits |-> IF res.ret = None THEN hits + 1 ELSE hits]
       ELSE [puzzle |-> res.grid, clues |-> cl - 1, budget_hits |-> hits]

(* a pass that goes on removing after the target is reached: a fault the
   bound on the clue count is tested against *)
VisitCellPastTarget ==
    /\ pc = "sweep"
    /\ k < ListLen(positions)
    /\ \E t \in (IF deadline_ts # None THEN ClockReadings ELSE {now}) :
          /\ now' = t
          /\ IF deadline_ts # None /\ t >= Val(deadline_ts)
             THEN /\ timed_out' = TRUE
                  /\ pc' = "swept"
                  /\ UNCHANGED <<puzzle, k, clues, budget_hits>>
             ELSE LET res == TryRemove(puzzle, args.spec, positions[k][1],
                                       positions[k][2], Val(policy).node_limit,
                                       clues, budget_hits)
                  IN /\ puzzle' = res.puzzle
                     /\ clues' = res.clues
                     /\ budget_hits' = res.budget_hits
                     /\ k' = k + 1
                     /\ UNCHANGED <<pc, timed_out>>
    /\ UNCHANGED <<args, rng, policy, first, positions>>
    /\ UNCHANGED <<batchVars, tryVars, ghostVars, callVars>>

(* a pass that looks at the clock only after the removal: a fault the
   deadline properties are tested against *)
VisitCellDeadlineLast ==
    /\ pc = "sweep"
    /\ k < ListLen(positions)
    /\ \E t \in (IF deadline_ts # None THEN ClockReadings ELSE {now}) :
          /\ now' = t
          /\ IF clues <= target
             THEN /\ pc' = "swept"
                  /\ UNCHANGED <<puzzle, k, clues, budget_hits, timed_out>>
             ELSE LET res == TryRemove(puzzle, args.spec, positions[k][1],
                                       positions[k][2], Val(policy).node_limit,
                                       clues, budget_hits)
                  IN /\ puzzle' = res.puzzle
                     /\ clues' = res.clues
                     /\ budget_hits' = res.budget_hits
                     /\ k' = k + 1
                     /\ IF deadline_ts # None /\ t >= Val(deadline_ts)
                        THEN timed_out' = TRUE /\ pc' = "swept"
                        ELSE UNCHANGED <<pc, timed_out>>
    /\ UNCHANGED <<args, rng, policy, first, positions>>
    /\ UNCHANGED <<batchVars, tryVars, ghostVars, callVars>>

VisitCell ==
    /\ pc = "sweep"
    /\ k < ListLen(positions)
    /\ \E t \in (IF deadline_ts # None THEN ClockReadings ELSE {now}) :
          /\ now' = t
          /\ IF deadline_ts # None /\ t >= Val(deadline_ts)
             THEN /\ timed_out' = TRUE
                  /\ pc' = "swept"
                  /\ UNCHANGED <<puzzle, k, clues, budget_hits>>
             ELSE IF clues <= target
             THEN /\ pc' = "swept"
                  /\ UNCHANGED <<puzzle, k, clues, budget_hits, timed_out>>
             ELSE IF clues - 1 < target
             THEN /\ k' = k + 1
                  /\ UNCHANGED <<pc, puzzle, clues, budget_hits, timed_out>>
             ELSE LET res == TryRemove(puzzle, args.spec, positions[k][1],
                                       positions[k][2], Val(policy).node_limit,
                                       clues, budget_hits)
                  IN /\ puzzle' = res.puzzle
                     /\ clues' = res.clues
                     /\ budget_hits' = res.budget_hits
                     /\ k' = k + 1
                     /\ UNCHANGED <<pc, timed_out>>
    /\ UNCHANGED <<args, rng, policy, first, positions>>
    /\ UNCHANGED <<batchVars, tryVars, ghostVars, callVars>>

(* line 275: the positions are exhausted *)
SweepEnd ==
    /\ pc = "sweep"
    /\ k >= ListLen(positions)
    /\ pc' = "swept"
    /\ UNCHANGED <<args, rng, now, policy, first>>
    /\ UNCHANGED <<batchVars, tryVars, sweepVars, ghostVars, callVars>>

(***************************************************************************)
(* generate_puzzle, lines 319-328: the attempt's result is returned when   *)
(* it is exact and else kept when it is the closest so far.                *)
(***************************************************************************)
Outcome(p, s, cl, exact, hits, to) ==
    [puzzle |-> p, solution |-> s, clues |-> cl, exact |-> exact,
     meta |-> [budget_hits |-> hits, timed_out |-> to]]

(* line 319 *)
Diff(cl, tgt) == Abs(cl - tgt)

(* exactness granted one clue off the target: a fault the properties of
   the outcomes are tested against *)
IsExactWithinOne(diff) == diff <= 1

(* line 324 *)
IsExact(diff) == diff = 0

(* best replaced only by a closer attempt, the first attempt never kept: a
   fault the properties of the batch are tested against *)
KeepBestOnlyCloser(b, b_diff, cand, diff) ==
    IF b # None /\ diff < Val(b_diff)
    THEN [best |-> Some(cand), best_diff |-> Some(diff)]
    ELSE [best |-> b, best_diff |-> b_diff]

(* best replaced by an attempt that is as close as the one kept: a fault
   the choice among the attempts is tested against *)
KeepBestLatest(b, b_diff, cand, diff) ==
    IF b = None \/ diff <= Val(b_diff)
    THEN [best |-> Some(cand), best_diff |-> Some(diff)]
    ELSE [best |-> b, best_diff |-> b_diff]

(* lines 326-328: best and best_diff after an attempt that is not exact *)
KeepBest(b, b_diff, cand, diff) ==
    IF b = None \/ diff < Val(b_diff)
    THEN [best |-> Some(cand), best_diff |-> Some(diff)]
    ELSE [best |-> b, best_diff |-> b_diff]

EndAttempt ==
    /\ pc = "swept"
    /\ LET diff == Diff(clues, target)
           cand == Outcome(puzzle, solution, clues, IsExact(diff),
                           budget_hits, timed_out)
           kept == KeepBest(best, best_diff, cand, diff)
       IN /\ IF IsExact(diff)
             THEN /\ outcome' = Some(cand)
                  /\ pc' = "emit"
                  /\ UNCHANGED <<best, best_diff>>
             ELSE /\ best' = kept.best
                  /\ best_diff' = kept.best_diff
                  /\ pc' = "try"
                  /\ UNCHANGED outcome
          /\ history' = [history EXCEPT ![Len(history)] = Append(@, cand)]
    /\ UNCHANGED <<args, rng, now, policy, first, tries, solution, deadline_ts,
                   returned>>
    /\ UNCHANGED <<batchVars, sweepVars, callVars>>

(***************************************************************************)
(* generate_puzzles, lines 348-368: the outcome is unpacked and appended,  *)
(* and the callbacks are called.                                           *)
(***************************************************************************)
(* lines 359-365 *)
(* the solver budget named whenever it was hit, the time limit or not: a
   fault the reasons of the warnings are tested against *)
ReasonBudgetFirst(meta) ==
    IF meta.budget_hits > 0 THEN "solver budget"
    ELSE IF meta.timed_out THEN "time limit"
    ELSE "clue-target drift"

Reason(meta) ==
    IF meta.timed_out /\ meta.budget_hits > 0 THEN "time limit + solver budget"
    ELSE IF meta.timed_out THEN "time limit"
    ELSE IF meta.budget_hits > 0 THEN "solver budget"
    ELSE "clue-target drift"

(* progress_cb called before warn_cb: a fault the properties of the
   callbacks are tested against *)
CallbacksProgressFirst(o, i, tgt, count) ==
    <<[cb |-> "progress", done |-> i + 1, total |-> count]>>
    \o (IF ~o.exact
        THEN <<[cb |-> "warn", index |-> i + 1, target |-> tgt,
                clues |-> o.clues, reason |-> Reason(o.meta)]>>
        ELSE <<>>)

(* lines 358-368: the callback calls made for an outcome *)
Callbacks(o, i, tgt, count) ==
    (IF ~o.exact
     THEN <<[cb |-> "warn", index |-> i + 1, target |-> tgt,
             clues |-> o.clues, reason |-> Reason(o.meta)]>>
     ELSE <<>>)
    \o <<[cb |-> "progress", done |-> i + 1, total |-> count]>>

EmitPuzzle ==
    /\ pc = "emit"
    /\ IF outcome = None
       THEN /\ pc' = "TypeError"
            /\ UNCHANGED <<idx, puzzles, solutions, events, returned>>
       ELSE /\ puzzles' = Append(puzzles, Val(outcome).puzzle)
            /\ solutions' = Append(solutions, Val(outcome).solution)
            /\ events' = events \o Callbacks(Val(outcome), idx, target, args.count)
            /\ returned' = Append(returned, Val(outcome))
            /\ idx' = idx + 1
            /\ pc' = "batch"
    /\ UNCHANGED <<args, rng, now, policy, first, target, history>>
    /\ UNCHANGED <<tryVars, sweepVars, callVars>>

(* line 369 *)
Return ==
    /\ pc = "batch"
    /\ idx >= args.count
    /\ pc' = "done"
    /\ UNCHANGED <<args, rng, now, policy, first>>
    /\ UNCHANGED <<batchVars, tryVars, sweepVars, ghostVars, callVars>>

Next ==
    \/ Validate
    \/ StartPuzzle
    \/ StartAttempt
    \/ ReturnBest
    \/ VisitCell
    \/ SweepEnd
    \/ EndAttempt
    \/ EmitPuzzle
    \/ Return

Spec == Init /\ [][Next]_vars

(***************************************************************************)
(* A second run of generate_puzzles with the same arguments and the same   *)
(* seed, after a first run has returned: the first run's result is kept in *)
(* first, everything else starts afresh (the clock is read from the run's *)
(* start).                                                                 *)
(***************************************************************************)
Rerun ==
    /\ pc = "done"
    /\ first = None
    /\ first' = Some([puzzles |-> puzzles, solutions |-> solutions,
                      events |-> events])
    /\ rng' = RngSeed(args.seed)
    /\ pc' = "start"
    /\ now' = 0
    /\ policy' = None
    /\ idx' = 0
    /\ target' = 0
    /\ puzzles' = <<>>
    /\ solutions' = <<>>
    /\ events' = <<>>
    /\ tries' = 0
    /\ best' = None
    /\ best_diff' = None
    /\ outcome' = None
    /\ solution' = EmptyGrid
    /\ deadline_ts' = None
    /\ puzzle' = EmptyGrid
    /\ positions' = Range(0)
    /\ k' = 0
    /\ clues' = 0
    /\ budget_hits' = 0
    /\ timed_out' = FALSE
    /\ history' = <<>>
    /\ returned' = <<>>
    /\ UNCHANGED <<args, input, output>>

NextTwoRuns == Next \/ Rerun

SpecTwoRuns == Init /\ [][NextTwoRuns]_vars

(***************************************************************************)
(* Two calls of generate_puzzles for the difficulties without time limit   *)
(* (lines 55-74), each made at any time of the clock.                      *)
(***************************************************************************)
Untimed(size, difficulty) ==
    /\ size \in DOMAIN PUZZLE_TIME_LIMITS_SEC
    /\ difficulty \in DOMAIN PUZZLE_TIME_LIMITS_SEC[size]
    /\ PUZZLE_TIME_LIMITS_SEC[size][difficulty] = None

InitUntimed ==
    /\ Init
    /\ Untimed(args.spec.size, args.difficulty)

(* time passes before the call is made *)
Tick ==
    /\ pc = "start"
    /\ now < MaxClock
    /\ now' = now + 1
    /\ UNCHANGED <<args, pc, rng, policy, first>>
    /\ UNCHANGED <<batchVars, tryVars, sweepVars, ghostVars, callVars>>

NextUntimedTwice == NextTwoRuns \/ Tick

SpecUntimedTwice == InitUntimed /\ [][NextUntimedTwice]_vars

(***************************************************************************)
(* generate_puzzle called on its own, lines 295-329, with arguments of the *)
(* caller's choice: any target up to one above size*size and at most       *)
(* MaxBelow under it, 0 to MaxTries tries, no node limit or MaxNodeBudget, *)
(* no time limit or one of 0..MaxClock.                                    *)
(***************************************************************************)
MaxBelow == 4

MaxTries == 2

MaxNodeBudget == 2

TargetsFor(spec) ==
    {t \in 0..(spec.size * spec.size + 1) : t >= spec.size * spec.size - MaxBelow}

InitGeneratePuzzle ==
    /\ \E spec \in ModelSpecs, seed \in 0..(NumSeeds - 1),
          max_tries \in 0..MaxTries,
          node_limit \in {None, Some(MaxNodeBudget)},
          time_limit_sec \in {None} \cup {Some(s) : s \in 0..MaxClock} :
          /\ args = [spec |-> spec, seed |-> seed]
          /\ rng = RngSeed(seed)
          /\ \E target_clues \in TargetsFor(spec) :
                /\ target = target_clues
                /\ policy = Some([low |-> target_clues, high |-> target_clues,
                                  node_limit |-> node_limit,
                                  time_limit_sec |-> time_limit_sec,
                                  max_tries |-> max_tries])
    /\ pc = "try"
    /\ now = 0
    /\ idx = 0
    /\ puzzles = <<>>
    /\ solutions = <<>>
    /\ events = <<>>
    /\ tries = 0
    /\ best = None
    /\ best_diff = None
    /\ outcome = None
    /\ solution = EmptyGrid
    /\ deadline_ts = None
    /\ puzzle = EmptyGrid
    /\ positions = Range(0)
    /\ k = 0
    /\ clues = 0
    /\ budget_hits = 0
    /\ timed_out = FALSE
    /\ history = <<<<>>>>
    /\ returned = <<>>
    /\ first = None
    /\ input = None
    /\ output = None

NextGeneratePuzzle ==
    \/ StartAttempt
    \/ VisitCell
    \/ SweepEnd
    \/ EndAttempt
    \/ ReturnBest

SpecGeneratePuzzle == InitGeneratePuzzle /\ [][NextGeneratePuzzle]_vars

(***************************************************************************)
(* generate_puzzles as above, or one call of spec_for_size (lines 102-109) *)
(* with any size of SizeInputs.                                            *)
(***************************************************************************)
MaxSize == 17

SizeInputs == (-1)..MaxSize

InitFailFast ==
    \/ Init
    \/ /\ \E size \in SizeInputs : input = Some(size)
       /\ output = None
       /\ args = [count |-> 0, spec |-> SudokuSpec(2, 1, 2),
                  difficulty |-> "Easy", seed |-> 0]
       /\ rng = 0
       /\ pc = "spec_for_size"
       /\ Fresh

CallSpecForSize ==
    /\ pc = "spec_for_size"
    /\ output' = Some(spec_for_size(Val(input)))
    /\ pc' = "spec_for_size done"
    /\ UNCHANGED <<args, rng, now, policy, first, input>>
    /\ UNCHANGED <<batchVars, tryVars, sweepVars, ghostVars>>

NextFailFast == Next \/ CallSpecForSize

SpecFailFast == InitFailFast /\ [][NextFailFast]_vars

(***************************************************************************)
(* _generate_full_solution on its own, for every result of its shuffles.   *)
(***************************************************************************)
(* the lists a shuffle of range(n) can return *)
Perms(n) ==
    {f \in [0..(n - 1) -> 0..(n - 1)] :
        \A i, j \in 0..(n - 1) : i # j => f[i] # f[j]}

(* the shuffled digit lists explored: all of them up to size 4, the
   rotations by 0 and 1 above *)
DigitLists(size) ==
    IF size <= 4
    THEN {[i \in 0..(size - 1) |-> f[i] + 1] : f \in Perms(size)}
    ELSE {[i \in 0..(size - 1) |-> ((i + s) % size) + 1] : s \in {0, 1}}

GenSpecs ==
    {SudokuSpec(2, 1, 2), SudokuSpec(2, 2, 1), SudokuSpec(3, 1, 3),
     SudokuSpec(3, 3, 1), SudokuSpec(4, 2, 2), SudokuSpec(6, 2, 3)}

NoArgs == [count |-> 0, spec |-> SudokuSpec(2, 1, 2), difficulty |-> "Easy",
           seed |-> 0]

InitGen ==
    /\ \E sp \in GenSpecs :
        \E d \in DigitLists(sp.size),
           rb \in Perms(sp.size \div sp.block_rows),
           ri \in [0..((sp.size \div sp.block_rows) - 1) -> Perms(sp.block_rows)],
           cs \in Perms(sp.size \div sp.block_cols),
           ci \in [0..((sp.size \div sp.block_cols) - 1) -> Perms(sp.block_cols)] :
           input = Some([spec |-> sp, digits |-> d, row_bands |-> rb,
                         row_inner |-> ri, col_stacks |-> cs, col_inner |-> ci])
    /\ output = None
    /\ args = NoArgs
    /\ rng = 0
    /\ pc = "generate"
    /\ Fresh

Generate ==
    /\ pc = "generate"
    /\ output' = Some(FullSolution(Val(input).spec, Val(input).digits,
                                   Val(input).row_bands, Val(input).row_inner,
                                   Val(input).col_stacks, Val(input).col_inner))
    /\ pc' = "generated"
    /\ UNCHANGED <<args, rng, now, policy, first, input>>
    /\ UNCHANGED <<batchVars, tryVars, sweepVars, ghostVars>>

NextGen == Generate

SpecGen == InitGen /\ [][NextGen]_vars

(***************************************************************************)
(* count_solutions on its own.  The caller's grid starts empty (grids of   *)
(* 4 and 9 cells) or as a solved grid (16 cells); the caller first         *)
(* empties cells, at most MaxEmpty of them, and then fills empty cells     *)
(* with digits that conflict with nothing, so the givens never conflict.   *)
(* output holds the result of count_solutions on the grid for every limit  *)
(* up to MaxLimit without a node limit, and for limit 2 with every node    *)
(* limit up to MaxNodeLimit.                                               *)
(***************************************************************************)
MaxLimit == 3

MaxNodeLimit == 3

MaxEmpty == 4

SolverCalls ==
    {<<l, None>> : l \in 1..MaxLimit} \cup {<<2, Some(n)>> : n \in 1..MaxNodeLimit}

(* the digits of the other cells of (r, c)'s row, column and box *)
Seen(grid, spec, r, c) ==
    {grid[p[1]][p[2]] :
        p \in {q \in Cells(spec) :
                 /\ q # <<r, c>>
                 /\ grid[q[1]][q[2]] # 0
                 /\ \/ q[1] = r
                    \/ q[2] = c
                    \/ /\ q[1] \div spec.block_rows = r \div spec.block_rows
                       /\ q[2] \div spec.block_cols = c \div spec.block_cols}}

(* count_solutions(grid, spec, limit, node_limit) for every call explored *)
SolveAll(grid, spec) ==
    [q \in SolverCalls |-> count_solutions(grid, spec, q[1], q[2])]

AllZero(spec) == [r \in 0..(spec.size - 1) |-> [c \in 0..(spec.size - 1) |-> 0]]

(* a solved 4 x 4 grid that no shuffle of the pattern yields: its rows 0 and
   3 and columns 0 and 3 hold 1 4 / 4 1 across four blocks *)
CrossedGrid ==
    LET rows == <<<<1, 2, 3, 4>>, <<3, 4, 1, 2>>, <<2, 1, 4, 3>>, <<4, 3, 2, 1>>>>
    IN [r \in 0..3 |-> [c \in 0..3 |-> rows[r + 1][c + 1]]]

SolverGrids(spec) ==
    IF spec.size < 4 THEN {AllZero(spec)}
    ELSE {_generate_full_solution(spec, RngSeed(0)).grid, CrossedGrid}

InitSolver ==
    /\ \E sp \in {SudokuSpec(2, 1, 2), SudokuSpec(3, 1, 3), SudokuSpec(4, 2, 2)} :
        \E g \in SolverGrids(sp) :
           input = Some([spec |-> sp, grid |-> g, filling |-> FALSE])
    /\ output = None
    /\ args = NoArgs
    /\ rng = 0
    /\ pc = "call"
    /\ Fresh

(* the caller calls count_solutions on its grid *)
Solve ==
    /\ pc = "call"
    /\ output' = Some(SolveAll(Val(input).grid, Val(input).spec))
    /\ pc' = "called"
    /\ UNCHANGED <<args, rng, now, policy, first, input>>
    /\ UNCHANGED <<batchVars, tryVars, sweepVars, ghostVars>>

(* the caller empties a cell *)
ClearCell ==
    /\ pc = "called"
    /\ ~Val(input).filling
    /\ Val(input).spec.size * Val(input).spec.size
          - _count_clues(Val(input).grid) < MaxEmpty
    /\ \E p \in Cells(Val(input).spec) :
          /\ Val(input).grid[p[1]][p[2]] # 0
          /\ LET g == [Val(input).grid EXCEPT ![p[1]][p[2]] = 0]
             IN input' = Some([Val(input) EXCEPT !.grid = g])
    /\ output' = None
    /\ pc' = "call"
    /\ UNCHANGED <<args, rng, now, policy, first>>
    /\ UNCHANGED <<batchVars, tryVars, sweepVars, ghostVars>>

(* the caller fills an empty cell with a digit that conflicts with nothing *)
AddGiven ==
    /\ pc = "called"
    /\ \E p \in Cells(Val(input).spec), v \in 1..Val(input).spec.size :
          /\ Val(input).grid[p[1]][p[2]] = 0
          /\ v \notin Seen(Val(input).grid, Val(input).spec, p[1], p[2])
          /\ LET g == [Val(input).grid EXCEPT ![p[1]][p[2]] = v]
             IN input' = Some([Val(input) EXCEPT !.grid = g, !.filling = TRUE])
    /\ output' = None
    /\ pc' = "call"
    /\ UNCHANGED <<args, rng, now, policy, first>>
    /\ UNCHANGED <<batchVars, tryVars, sweepVars, ghostVars>>

NextSolver == Solve \/ ClearCell \/ AddGiven

SpecSolver == InitSolver /\ [][NextSolver]_vars

(***************************************************************************)
(* What the claims speak of: valid grids and the number of completions of  *)
(* a grid, defined from the rules of the puzzle and not from the solver.   *)
(***************************************************************************)
Digits(spec) == 1..spec.size

IsGrid(g, spec) ==
    /\ DOMAIN g = 0..(spec.size - 1)
    /\ \A r \in DOMAIN g : DOMAIN g[r] = 0..(spec.size - 1)

(* the cells of row r, of column c, and of the block of band b and stack s *)
RowCells(spec, r) == {p \in Cells(spec) : p[1] = r}

ColCells(spec, c) == {p \in Cells(spec) : p[2] = c}

BlockCells(spec, b, s) ==
    {p \in Cells(spec) : p[1] \div spec.block_rows = b /\ p[2] \div spec.block_cols = s}

(* the cells of S hold each digit exactly once *)
EachDigitOnce(g, spec, S) ==
    \A d \in Digits(spec) : Cardinality({p \in S : g[p[1]][p[2]] = d}) = 1

(* every row, column and block holds each digit exactly once *)
IsValidFull(g, spec) ==
    /\ IsGrid(g, spec)
    /\ \A r \in 0..(spec.size - 1) : EachDigitOnce(g, spec, RowCells(spec, r))
    /\ \A c \in 0..(spec.size - 1) : EachDigitOnce(g, spec, ColCells(spec, c))
    /\ \A b \in 0..((spec.size \div spec.block_rows) - 1),
          s \in 0..((spec.size \div spec.block_cols) - 1) :
          EachDigitOnce(g, spec, BlockCells(spec, b, s))

(* no two givens of a row, column or block are equal *)
NoConflict(g, spec) ==
    \A p \in Cells(spec) :
        g[p[1]][p[2]] # 0 => g[p[1]][p[2]] \notin Seen(g, spec, p[1], p[2])

RECURSIVE SumOver(_, _)
SumOver(f, S) ==
    IF S = {} THEN 0
    ELSE LET x == CHOOSE y \in S : TRUE IN f[x] + SumOver(f, S \ {x})

(* the number of ways to fill the empty cells from cell number n on *)
RECURSIVE CompletionsFrom(_, _, _)
CompletionsFrom(g, spec, n) ==
    IF n >= spec.size * spec.size THEN 1
    ELSE LET r == n \div spec.size
             c == n % spec.size
         IN IF g[r][c] # 0 THEN CompletionsFrom(g, spec, n + 1)
            ELSE LET free == Digits(spec) \ Seen(g, spec, r, c)
                 IN SumOver([v \in free |->
                                CompletionsFrom([g EXCEPT ![r][c] = v], spec, n + 1)],
                            free)

(* the number of valid full grids that agree with g on its givens *)
NumCompletions(g, spec) ==
    IF NoConflict(g, spec) THEN CompletionsFrom(g, spec, 0) ELSE 0

(***************************************************************************)
(* The properties.  Those of generate_puzzles are stated on Spec, those of *)
(* two runs on SpecTwoRuns, those of _generate_full_solution on SpecGen    *)
(* and those of count_solutions on SpecSolver.                             *)
(***************************************************************************)
(* generate_puzzle has returned an outcome that generate_puzzles is about
   to unpack *)
Returned == pc = "emit" /\ outcome # None

(* the arguments are a size and a difficulty of the tables *)
Supported ==
    /\ args.spec.size \in DOMAIN CLUE_RANGES
    /\ args.difficulty \in DOMAIN CLUE_RANGES[args.spec.size]

(* a cell of the puzzle that is neither empty nor the solution's digit *)
Foreign(p, s) == {q \in (DOMAIN p) \X (DOMAIN p) : p[q[1]][q[2]] \notin {0, s[q[1]][q[2]]}}

(* C1: every puzzle generate_puzzle returns as exact, or from a reduction
   that ended with budget_hits = 0 and timed_out = false, has exactly one
   completion that satisfies the row, column and block constraints. *)
C1_ReturnedPuzzleUnique ==
    (/\ Returned
     /\ \/ Val(outcome).exact
        \/ Val(outcome).meta.budget_hits = 0 /\ ~Val(outcome).meta.timed_out)
    => NumCompletions(Val(outcome).puzzle, args.spec) = 1

(* an outcome returned as exact whose puzzle has no completion at all, while
   count_solutions with limit 2 says 1 of it *)
C1_ExactWithoutCompletion ==
    /\ Returned
    /\ Val(outcome).exact
    /\ NumCompletions(Val(outcome).puzzle, args.spec) = 0
    /\ count_solutions(Val(outcome).puzzle, args.spec, 2, None).ret = Some(1)

(* C2: in every outcome generate_puzzle returns, budget-exceeded and timed
   out attempts included, the solution has no zeros and every cell of the
   puzzle is 0 or the solution's cell at the same position. *)
C2_PuzzleIsSolutionMinusClues ==
    Returned =>
        /\ \A q \in Cells(args.spec) : Val(outcome).solution[q[1]][q[2]] # 0
        /\ Foreign(Val(outcome).puzzle, Val(outcome).solution) = {}

(* an outcome whose puzzle holds a digit that is not the solution's, after
   the solver reported budget-exceeded *)
C2_ForeignDigit ==
    /\ Returned
    /\ Val(outcome).meta.budget_hits > 0
    /\ Foreign(Val(outcome).puzzle, Val(outcome).solution) # {}

(* C3: for every spec with size = block_rows * block_cols and every result
   of the shuffles, _generate_full_solution returns a size x size grid whose
   rows, columns and block_rows x block_cols blocks each hold every digit
   1..size exactly once. *)
C3_FullSolutionValid ==
    pc = "generated" => IsValidFull(Val(output), Val(input).spec)

(* a generated 6 x 6 grid of 2 x 3 blocks whose bands, stacks, rows and
   columns were all moved by the shuffles *)
C3_ShuffledSix ==
    /\ pc = "generated"
    /\ Val(input).spec = SudokuSpec(6, 2, 3)
    /\ Val(input).row_bands # Range(3)
    /\ Val(input).col_stacks # Range(2)
    /\ \A b \in 0..2 : Val(input).row_inner[b] # Range(2)
    /\ \A b \in 0..1 : Val(input).col_inner[b] # Range(3)
    /\ Val(input).digits # RangeFrom(1, 7)
    /\ IsValidFull(Val(output), Val(input).spec)

(* C4: two runs of generate_puzzles with the same seed and the same
   arguments return the same puzzles and the same solutions, whatever the
   timing of the two runs, time-limited difficulties included. *)
C4_SameSeedSameResult ==
    (pc = "done" /\ first # None) =>
        /\ puzzles = Val(first).puzzles
        /\ solutions = Val(first).solutions

(* two finished runs of a time-limited difficulty with the same seed whose
   puzzles differ *)
C4_RunsDiffer ==
    /\ pc = "done"
    /\ first # None
    /\ Val(policy).time_limit_sec # None
    /\ Len(puzzles) = Len(Val(first).puzzles)
    /\ puzzles # Val(first).puzzles

(* C5: for a supported size and difficulty and any count >= 0,
   generate_puzzles raises nothing and returns exactly count puzzles and
   count solutions, puzzles[i] and solutions[i] being the puzzle and the
   solution of one and the same attempt made for puzzle i, however many
   puzzles missed their target, hit the solver budget or timed out. *)
C5_BatchComplete ==
    /\ pc # "TypeError"
    /\ Supported => pc # "ValueError"
    /\ Len(puzzles) = idx /\ Len(solutions) = idx
    /\ pc = "done" => Len(puzzles) = args.count /\ Len(solutions) = args.count
    /\ \A i \in 1..Len(puzzles) :
          \E a \in 1..Len(history[i]) :
              /\ history[i][a].puzzle = puzzles[i]
              /\ history[i][a].solution = solutions[i]

(* a finished batch of two puzzles of which one missed its target after
   budget-exceeded searches and every attempt allowed *)
C5_BatchWithMisses ==
    /\ pc = "done"
    /\ args.count = 2
    /\ Len(puzzles) = 2
    /\ \E i \in 1..2 :
          /\ ~returned[i].exact
          /\ returned[i].meta.budget_hits > 0
          /\ Len(history[i]) = Val(policy).max_tries

(* C6: in every outcome of _remove_numbers and of generate_puzzle, the clue
   count reported is the number of non-zero cells of the puzzle returned,
   attempts with budget-exceeded searches included. *)
C6_CluesCountNonZero ==
    /\ pc = "swept" => clues = _count_clues(puzzle)
    /\ Returned => Val(outcome).clues = _count_clues(Val(outcome).puzzle)

(* an outcome returned with fewer clues reported than the puzzle has
   non-zero cells *)
C6_MoreCellsThanClues ==
    /\ Returned
    /\ Val(outcome).meta.budget_hits > 0
    /\ Val(outcome).clues < _count_clues(Val(outcome).puzzle)

(* C7: in every outcome of generate_puzzle the achieved clue count is at
   most size * size, and it is the target when the outcome is exact. *)
C7_CluesBoundedExactOnTarget ==
    Returned =>
        /\ Val(outcome).clues <= args.spec.size * args.spec.size
        /\ Val(outcome).exact => Val(outcome).clues = target

(* an exact outcome reached by removing clues, and not on the first attempt *)
C7_ExactAfterRemovals ==
    /\ Returned
    /\ Val(outcome).exact
    /\ Val(outcome).clues = target
    /\ target < args.spec.size * args.spec.size
    /\ tries > 1

(* C8, as stated: every puzzle generate_puzzles returns has a clue count
   within the difficulty's range [low, high], exact or not. *)
C8_CluesWithinRange ==
    \A i \in 1..Len(returned) :
        /\ returned[i].clues >= Val(policy).low
        /\ returned[i].clues <= Val(policy).high

(* C8, amended: every puzzle generate_puzzles returns has a reported clue
   count of at least low and at most size * size, and within [low, high]
   when it hit its exact target; the puzzle has at least as many non-zero
   cells as reported. *)
C8_CluesAtLeastLow ==
    \A i \in 1..Len(returned) :
        /\ returned[i].clues >= Val(policy).low
        /\ returned[i].clues <= args.spec.size * args.spec.size
        /\ returned[i].exact => returned[i].clues <= Val(policy).high
        /\ _count_clues(puzzles[i]) >= returned[i].clues

(* a finished batch with a puzzle that missed its target without any
   budget-exceeded search or timeout and kept more clues than high *)
C8_AboveHigh ==
    /\ pc = "done"
    /\ \E i \in 1..Len(returned) :
          /\ ~returned[i].exact
          /\ returned[i].meta.budget_hits = 0
          /\ ~returned[i].meta.timed_out
          /\ returned[i].clues > Val(policy).high
          /\ returned[i].clues = _count_clues(puzzles[i])

(* the result of count_solutions(grid, spec, limit=2) without a node limit *)
Limit2 == Val(output)[<<2, None>>].ret

(* C9: on a grid whose givens conflict in no row, column or block,
   count_solutions with limit 2 and no node limit returns 0 exactly when
   the grid has no valid completion, 1 exactly when it has exactly one, and
   a value >= 2 exactly when it has at least two. *)
C9_CountClassifies ==
    (pc = "called" /\ NoConflict(Val(input).grid, Val(input).spec)) =>
        LET n == NumCompletions(Val(input).grid, Val(input).spec)
        IN /\ Limit2 # None
           /\ Val(Limit2) = 0 <=> n = 0
           /\ Val(Limit2) = 1 <=> n = 1
           /\ Val(Limit2) >= 2 <=> n >= 2

(* a 4 x 4 grid with empty cells and givens that conflict nowhere and yet
   has no completion, of which count_solutions returns 0 *)
C9_NoCompletionFound ==
    /\ pc = "called"
    /\ Val(input).spec.size = 4
    /\ NoConflict(Val(input).grid, Val(input).spec)
    /\ _count_clues(Val(input).grid) < 16
    /\ NumCompletions(Val(input).grid, Val(input).spec) = 0
    /\ Limit2 = Some(0)

(* C10: a call of count_solutions with limit >= 1 that does not report
   budget-exceeded returns at most limit. *)
C10_CountAtMostLimit ==
    pc = "called" =>
        \A q \in SolverCalls :
            Val(output)[q].ret # None => Val(Val(output)[q].ret) <= q[1]

(* a call without node limit that returns more than its limit *)
C10_CountAboveLimit ==
    /\ pc = "called"
    /\ \E q \in SolverCalls :
          /\ q[2] = None
          /\ Val(output)[q].ret # None
          /\ Val(Val(output)[q].ret) > q[1]

(* the result of count_solutions(grid, spec, limit=2, node_limit=n) *)
Limited(n) == Val(output)[<<2, Some(n)>>]

(* the result of count_solutions(grid, spec, limit=2) without a node limit,
   with the number of calls of _count_solutions it made *)
Unlimited == Val(output)[<<2, None>>]

(* C11: count_solutions reports budget-exceeded, a marker that is no
   completion count, exactly when the invocation would make more than
   node_limit calls of the recursive search, counted from zero in every
   invocation; without a node limit it never reports budget-exceeded; a
   search that ends within node_limit calls returns what the unlimited
   search returns. *)
C11_BudgetExceededExactly ==
    pc = "called" =>
        /\ \A n \in 1..MaxNodeLimit :
              /\ Limited(n).ret = None <=> Unlimited.calls > n
              /\ Limited(n).ret # None => Limited(n).ret = Unlimited.ret
        /\ \A q \in SolverCalls : q[2] = None => Val(output)[q].ret # None

(* a grid whose search takes exactly three calls: node limit 3 returns the
   unlimited count 1, node limit 2 reports budget-exceeded *)
C11_AtTheLimit ==
    /\ pc = "called"
    /\ Unlimited.calls = 3
    /\ Unlimited.ret = Some(1)
    /\ Limited(3).ret = Some(1)
    /\ Limited(2).ret = None

(* the positions of the calls of progress_cb and of warn_cb in events *)
ProgressCalls == {p \in 1..Len(events) : events[p].cb = "progress"}

WarnCalls == {p \in 1..Len(events) : events[p].cb = "warn"}

(* the number of progress_cb calls made before the call at position p *)
ProgressBefore(p) == Cardinality({q \in ProgressCalls : q < p})

(* C12: with both callbacks supplied, progress_cb is called exactly once per
   puzzle, with (1, count), (2, count), ..., (count, count) in that order;
   warn_cb is called for puzzle i exactly when puzzle i is not exact, at
   most once, after progress_cb(i - 1, count) and before
   progress_cb(i, count). *)
C12_CallbackOrder ==
    /\ Cardinality(ProgressCalls) = Len(returned)
    /\ pc = "done" => Cardinality(ProgressCalls) = args.count
    /\ \A p \in ProgressCalls :
          /\ events[p].done = ProgressBefore(p) + 1
          /\ events[p].total = args.count
    /\ \A p \in WarnCalls :
          /\ events[p].index = ProgressBefore(p) + 1
          /\ p < Len(events)
          /\ events[p + 1].cb = "progress"
    /\ \A i \in 1..Len(returned) :
          Cardinality({p \in WarnCalls : events[p].index = i})
              = IF returned[i].exact THEN 0 ELSE 1

(* a finished batch of two puzzles of which only the second missed its
   target: progress(1, 2), warn(2, ...), progress(2, 2) *)
C12_WarnForSecondOnly ==
    /\ pc = "done"
    /\ args.count = 2
    /\ Len(events) = 3
    /\ events[1].cb = "progress"
    /\ events[2].cb = "warn"
    /\ events[2].index = 2
    /\ events[3] = [cb |-> "progress", done |-> 2, total |-> 2]
    /\ returned[1].exact
    /\ ~returned[2].exact

(* C13: size 9 Easy and every difficulty of size 6 have no time limit, and
   for a size and difficulty without time limit two runs of generate_puzzles
   fed the same random draws return the same puzzles and the same solutions
   and make the same callback calls, whenever the runs are made. *)
C13_UntimedRunsAgree ==
    /\ Untimed(9, "Easy")
    /\ \A d \in Difficulties : Untimed(6, d)
    /\ (pc = "done" /\ first # None
            /\ Val(policy).time_limit_sec = None) =>
          /\ puzzles = Val(first).puzzles
          /\ solutions = Val(first).solutions
          /\ events = Val(first).events

(* a second run of an untimed difficulty, made one tick later than the
   first, that returned two puzzles and warned about one of them *)
C13_SecondRunLater ==
    /\ pc = "done"
    /\ first # None
    /\ now = 1
    /\ Val(policy).time_limit_sec = None
    /\ Len(puzzles) = 2
    /\ \E p \in 1..Len(events) : events[p].cb = "warn"

(* C14: spec_for_size fails for every size outside {6, 9, 16} and returns a
   spec with size = block_rows * block_cols for 6, 9 and 16; generate_puzzles
   called with an unsupported size or difficulty fails, and has then drawn no
   random number, generated no puzzle and invoked no callback. *)
C14_FailFast ==
    /\ pc = "spec_for_size done" =>
          IF Val(input) \in {6, 9, 16}
          THEN /\ Val(output).raised = None
               /\ Val(output).ret # None
               /\ Val(Val(output).ret).size = Val(input)
               /\ Val(Val(output).ret).size
                     = Val(Val(output).ret).block_rows
                          * Val(Val(output).ret).block_cols
          ELSE /\ Val(output).raised = Some("ValueError")
               /\ Val(output).ret = None
    /\ (input = None /\ ~Supported) => pc \in {"start", "ValueError"}
    /\ pc = "ValueError" =>
          /\ ~Supported
          /\ rng = RngSeed(args.seed)
          /\ puzzles = <<>>
          /\ solutions = <<>>
          /\ events = <<>>
          /\ history = <<>>
          /\ returned = <<>>

(* generate_puzzles has failed on a difficulty that is not in the table of
   a size that is, two puzzles having been asked for *)
C14_UnknownDifficultyRejected ==
    /\ pc = "ValueError"
    /\ args.count = 2
    /\ args.spec.size \in DOMAIN CLUE_RANGES
    /\ args.difficulty \notin DOMAIN CLUE_RANGES[args.spec.size]

(***************************************************************************)
(* kdp_specs.py.  Lengths are in thousandths of an inch: 0.25 in is 250,   *)
(* 0.375 in is 375.  The margins explored are multiples of 1/8 in, which   *)
(* floats hold exactly, so the sums and comparisons are those of the       *)
(* floats.                                                                 *)
(***************************************************************************)
Max(a, b) == IF a >= b THEN a ELSE b

(* line 6: 0.25 in *)
KDP_MIN_OUTSIDE_TOP_BOTTOM_IN == 250

(* lines 10-16: (lo, hi, gutter) *)
KDP_INSIDE_GUTTER_TABLE ==
    << <<24, 150, 375>>,
       <<151, 300, 500>>,
       <<301, 500, 625>>,
       <<501, 700, 750>>,
       <<701, 828, 875>> >>

(* rounding up without the guard on page_count <= 0: a fault the
   properties of compute_even_page_count are tested against *)
EvenWithoutFloor(page_count) ==
    IF page_count % 2 = 0 THEN page_count ELSE page_count + 1

(* lines 19-22 *)
compute_even_page_count(page_count) ==
    IF page_count <= 0 THEN 0
    ELSE IF page_count % 2 = 0 THEN page_count ELSE page_count + 1

(* lines 29-32: the loop over the table from row i, and the fall-back to
   the last row's gutter *)
RECURSIVE GutterFrom(_, _)
GutterFrom(i, page_count_even) ==
    IF i > Len(KDP_INSIDE_GUTTER_TABLE)
    THEN KDP_INSIDE_GUTTER_TABLE[Len(KDP_INSIDE_GUTTER_TABLE)][3]
    ELSE IF /\ KDP_INSIDE_GUTTER_TABLE[i][1] <= page_count_even
            /\ page_count_even <= KDP_INSIDE_GUTTER_TABLE[i][2]
    THEN KDP_INSIDE_GUTTER_TABLE[i][3]
    ELSE GutterFrom(i + 1, page_count_even)

(* the gutter of the row after the one that contains the page count: a
   fault the properties of the gutter are tested against *)
RequiredInsideOfNextRow(page_count_even) ==
    IF page_count_even <= 0 THEN 0 ELSE GutterFrom(1, page_count_even + 127)

(* lines 25-32 *)
required_inside_margin_no_bleed(page_count_even) ==
    IF page_count_even <= 0 THEN 0 ELSE GutterFrom(1, page_count_even)

(* lines 35-40 *)
InteriorMarginSpec(outside_in, top_in, bottom_in, inside_in) ==
    [outside_in |-> outside_in, top_in |-> top_in, bottom_in |-> bottom_in,
     inside_in |-> inside_in]

(* an inside margin of the required gutter plus the extra gutter, the
   outside margin ignored: a fault the properties of the margins are tested
   against *)
MarginSpecIgnoringOutside(page_count_even, outside_top_bottom_in, extra_gutter_in) ==
    LET outside == Max(KDP_MIN_OUTSIDE_TOP_BOTTOM_IN, outside_top_bottom_in)
        inside == required_inside_margin_no_bleed(page_count_even)
                      + Max(0, extra_gutter_in)
    IN InteriorMarginSpec(outside, outside, outside, inside)

(* the margins with the user's margin and extra gutter taken as given,
   below the minimum or negative: a fault the properties of the margins are
   tested against *)
MarginSpecAsGiven(page_count_even, outside_top_bottom_in, extra_gutter_in) ==
    LET outside == outside_top_bottom_in
        required_inside == required_inside_margin_no_bleed(page_count_even)
        inside == Max(required_inside, outside) + extra_gutter_in
    IN InteriorMarginSpec(outside, outside, outside, inside)

(* lines 43-56 *)
build_margin_spec_no_bleed(page_count_even, outside_top_bottom_in, extra_gutter_in) ==
    LET outside == Max(KDP_MIN_OUTSIDE_TOP_BOTTOM_IN, outside_top_bottom_in)
        required_inside == required_inside_margin_no_bleed(page_count_even)
        inside == Max(required_inside, outside) + Max(0, extra_gutter_in)
    IN InteriorMarginSpec(outside, outside, outside, inside)

(* the check of the minimum alone: a fault the properties of the page
   count are tested against *)
ValidatePageCountMinOnly(page_count_even) ==
    IF page_count_even < 24
    THEN <<[msg |-> "KDP paperback minimum is 24 pages. Increase puzzle counts."]>>
    ELSE <<>>

(* lines 59-65: the list of errors, each a record of its message *)
validate_page_count(page_count_even) ==
    (IF page_count_even < 24
     THEN <<[msg |-> "KDP paperback minimum is 24 pages. Increase puzzle counts."]>>
     ELSE <<>>)
    \o (IF page_count_even > 828
        THEN <<[msg |-> "KDP paperback maximum is 828 pages. Reduce puzzle counts."]>>
        ELSE <<>>)

(***************************************************************************)
(* validators.py.  The lengths explored are multiples of 1/8 in, that is   *)
(* of 9 points, so lengths in points are whole numbers.  The quotients     *)
(* cell_w, cell_h, grid_size and cell are kept as numerators over          *)
(* rows * cols (and size) and the comparisons are cross-multiplied, so     *)
(* they are those of exact arithmetic.                                     *)
(***************************************************************************)
(* x * 72.0: a length in thousandths of an inch, in points *)
Points(x) == (x * 72) \div 1000

(* lines 15-18 *)
PreflightReport(errors, warnings, info) ==
    [errors |-> errors, warnings |-> warnings, info |-> info]

(* lines 20-22 *)
passed(report) == Len(report.errors) = 0

(* the truth value of an optional string: None and "" are false *)
Truthy(o) == o # None /\ Val(o) # ""

(* lines 79-94: the errors of one section (size, difficulty, count, rows,
   cols) *)
SectionErrors(section, avail_w, avail_h_total, header_h, footer_h) ==
    LET size == section[1]
        difficulty == section[2]
        rows == section[4]
        cols == section[5]
        label_h == 11
        padding == 6
        avail_h == avail_h_total - header_h - footer_h
        (* cell_w, cell_h and grid_size, each times rows * cols *)
        cell_w == avail_w * rows
        cell_h == avail_h * cols
        low == IF cell_w <= cell_h - label_h * rows * cols
               THEN cell_w ELSE cell_h - label_h * rows * cols
        grid_size == low - padding * rows * cols
        (* scale = 0.55 = 220/400, and 0.55 * 0.85 = 187/400 from size 10 *)
        scale == IF size >= 10 THEN 187 ELSE 220
    IN IF grid_size <= 0
       THEN <<[msg |-> "layout does not fit", size |-> size,
               difficulty |-> difficulty, rows |-> rows, cols |-> cols]>>
       ELSE IF grid_size * scale < 7 * 400 * size * rows * cols
       THEN <<[msg |-> "cells are too small for 7pt minimum", size |-> size,
               difficulty |-> difficulty]>>
       ELSE <<>>

(* lines 78-94: the loop over the sections from index i *)
RECURSIVE SectionsErrors(_, _, _, _, _, _)
SectionsErrors(sections, i, avail_w, avail_h_total, header_h, footer_h) ==
    IF i > Len(sections) THEN <<>>
    ELSE SectionErrors(sections[i], avail_w, avail_h_total, header_h, footer_h)
         \o SectionsErrors(sections, i + 1, avail_w, avail_h_total, header_h,
                           footer_h)

(* lines 34-96 *)
run_preflight(sections, total_pages_even, margins, trim_w, trim_h, include_page_numbers, font_label, font_error) ==
    LET fonts == IF Truthy(font_error)
                 THEN [errors |-> <<[msg |-> "Fonts", font_error |-> Val(font_error)]>>,
                       info |-> <<>>]
                 ELSE IF Truthy(font_label)
                 THEN [errors |-> <<>>,
                       info |-> <<[msg |-> "Embedded fonts",
                                   font_label |-> Val(font_label)]>>]
                 ELSE [errors |-> <<>>, info |-> <<>>]
        pages == validate_page_count(total_pages_even)
        outside == IF margins.outside_in < KDP_MIN_OUTSIDE_TOP_BOTTOM_IN
                   THEN <<[msg |-> "Outside/Top/Bottom margin is below 0.25 in."]>>
                   ELSE <<>>
        required_inside == required_inside_margin_no_bleed(total_pages_even)
        inside == IF margins.inside_in < required_inside
                  THEN <<[msg |-> "Inside (gutter) margin is below KDP requirement",
                          inside_in |-> margins.inside_in,
                          required_inside |-> required_inside,
                          pages |-> total_pages_even]>>
                  ELSE <<>>
        page_w_pt == Points(trim_w)
        page_h_pt == Points(trim_h)
        outside_pt == Points(margins.outside_in)
        inside_pt == Points(margins.inside_in)
        avail_w == page_w_pt - outside_pt - inside_pt
        avail_h_total == page_h_pt - Points(margins.top_in)
                             - Points(margins.bottom_in)
        header_h == 20
        footer_h == IF include_page_numbers THEN 14 ELSE 0
        layout == IF avail_w <= 0 \/ avail_h_total <= 0
                  THEN <<[msg |-> "Margins are too large for this trim size."]>>
                  ELSE SectionsErrors(sections, 1, avail_w, avail_h_total,
                                      header_h, footer_h)
    IN PreflightReport(fonts.errors \o pages \o outside \o inside \o layout,
                       <<>>, fonts.info)

(***************************************************************************)
(* The functions of kdp_specs.py, each called on any page count of         *)
(* PageCounts and any margin and extra gutter of EighthInches.             *)
(***************************************************************************)
MaxPages == 830

MaxEighths == 8

MaxExtraEighths == 2

PageCounts == (-3)..MaxPages

EighthInches(n) == {125 * i : i \in (-1)..n}

InitKdp ==
    /\ \E page_count \in PageCounts, margin \in EighthInches(MaxEighths),
          extra \in EighthInches(MaxExtraEighths) :
          input = Some([page_count |-> page_count, margin |-> margin,
                        extra |-> extra])
    /\ output = None
    /\ args = NoArgs
    /\ rng = 0
    /\ pc = "kdp"
    /\ Fresh

KdpUnchanged ==
    /\ UNCHANGED <<args, rng, now, policy, first, input>>
    /\ UNCHANGED <<batchVars, tryVars, sweepVars, ghostVars>>

CallComputeEven ==
    /\ pc = "kdp"
    /\ output' = Some(compute_even_page_count(Val(input).page_count))
    /\ pc' = "compute_even_page_count"
    /\ KdpUnchanged

(* the function applied to its own result *)
CallComputeEvenAgain ==
    /\ pc = "compute_even_page_count"
    /\ output' = Some(compute_even_page_count(Val(output)))
    /\ pc' = "compute_even_page_count twice"
    /\ KdpUnchanged

CallRequiredInside ==
    /\ pc = "kdp"
    /\ output' = Some(required_inside_margin_no_bleed(Val(input).page_count))
    /\ pc' = "required_inside_margin_no_bleed"
    /\ KdpUnchanged

CallBuildMarginSpec ==
    /\ pc = "kdp"
    /\ output' = Some(build_margin_spec_no_bleed(Val(input).page_count,
                                                 Val(input).margin,
                                                 Val(input).extra))
    /\ pc' = "build_margin_spec_no_bleed"
    /\ KdpUnchanged

(* app.py, lines 116-136: run_preflight is given the margins just built
   and the page count they were built for (here with one section on a
   6 x 9 in page, page numbers and fonts found) *)
CallRunPreflightOnBuilt ==
    /\ pc = "build_margin_spec_no_bleed"
    /\ output' = Some([margins |-> Val(output),
                       report |-> run_preflight(<<<<9, "Easy", 10, 2, 2>>>>,
                                                Val(input).page_count,
                                                Val(output), 6000, 9000, TRUE,
                                                Some("DejaVu Sans"), None)])
    /\ pc' = "run_preflight"
    /\ KdpUnchanged

NextKdp ==
    \/ CallComputeEven
    \/ CallComputeEvenAgain
    \/ CallRequiredInside
    \/ CallBuildMarginSpec
    \/ CallRunPreflightOnBuilt

SpecKdp == InitKdp /\ [][NextKdp]_vars

(***************************************************************************)
(* run_preflight called on its own: page counts around the limits and the  *)
(* breakpoints, margins that do and do not meet the requirements, three    *)
(* trim sizes, and section lists with layouts that fit, that leave cells   *)
(* too small and that do not fit.                                          *)
(***************************************************************************)
PreflightPages ==
    {n \in PageCounts : \E b \in {0, 24, 150, 500, 828} : Abs(n - b) <= 2}

PreflightSections ==
    {<<>>,
     <<<<9, "Easy", 10, 1, 1>>>>,
     <<<<9, "Easy", 10, 2, 2>>, <<16, "Hard", 5, 2, 2>>>>,
     <<<<16, "Expert", 3, 1, 1>>, <<6, "Medium", 40, 3, 4>>>>,
     <<<<6, "Easy", 200, 10, 10>>>>,
     <<<<9, "Hard", 900, 30, 30>>, <<6, "Hard", 4, 2, 2>>>>}

PreflightMargins ==
    {InteriorMarginSpec(o, o, o, i) :
        o \in {125, 250, 500}, i \in {250, 375, 500, 875, 6000}}

PreflightTrims == {<<5000, 8000>>, <<6000, 9000>>, <<8500, 11000>>}

PreflightFonts ==
    {[font_label |-> Some("DejaVu Sans"), font_error |-> None],
     [font_label |-> None, font_error |-> Some("No usable fonts found")],
     [font_label |-> None, font_error |-> Some("")],
     [font_label |-> None, font_error |-> None]}

InitPreflight ==
    /\ \E sections \in PreflightSections, n \in PreflightPages,
          margins \in PreflightMargins, trim \in PreflightTrims,
          include_page_numbers \in BOOLEAN, fonts \in PreflightFonts :
          input = Some([sections |-> sections, total_pages_even |-> n,
                        margins |-> margins, trim_w |-> trim[1],
                        trim_h |-> trim[2],
                        include_page_numbers |-> include_page_numbers,
                        font_label |-> fonts.font_label,
                        font_error |-> fonts.font_error])
    /\ output = None
    /\ args = NoArgs
    /\ rng = 0
    /\ pc = "preflight"
    /\ Fresh

(* the report, and report.passed read from it *)
CallRunPreflight ==
    /\ pc = "preflight"
    /\ LET a == Val(input)
           report == run_preflight(a.sections, a.total_pages_even, a.margins,
                                   a.trim_w, a.trim_h, a.include_page_numbers,
                                   a.font_label, a.font_error)
       IN output' = Some([report |-> report, passed |-> passed(report)])
    /\ pc' = "run_preflight"
    /\ KdpUnchanged

NextPreflight == CallRunPreflight

SpecPreflight == InitPreflight /\ [][NextPreflight]_vars

(***************************************************************************)
(* The making of a book: the Generate Book button of the UI (app.py) and   *)
(* process_batch (batch_processor.py).  The puzzles themselves are left    *)
(* out: generate_puzzles returns count puzzles for every section, and      *)
(* build_interior_pdf returns a PDF of their pages.                        *)
(***************************************************************************)
(* the elements of a list *)
Range1(list) == {list[i] : i \in 1..Len(list)}

(* app.py lines 76-77, batch_processor.py lines 22-23 *)
SIZES == <<6, 9, 16>>

DIFFICULTIES == <<"Easy", "Medium", "Hard", "Expert">>

(* math.floor(math.sqrt(n)) *)
FloorSqrt(n) == CHOOSE r \in 0..n : r * r <= n /\ (r + 1) * (r + 1) > n

(* a square layout, cols = rows: a fault the properties of the layout are
   tested against *)
LayoutSquare(per_page) ==
    LET p == Max(1, per_page)
        rows == Max(1, FloorSqrt(p))
    IN <<rows, rows>>

(* app.py lines 82-86, batch_processor.py lines 26-30: <<rows, cols>> *)
_layout_from_per_page(per_page) ==
    LET p == Max(1, per_page)
        rows == Max(1, FloorSqrt(p))
        cols == (p + rows - 1) \div rows
    IN <<rows, cols>>

(* app.py lines 89-91, batch_processor.py lines 33-35 *)
_pages_needed(puzzle_count, rows, cols) ==
    LET per_page == Max(1, rows * cols)
    IN (puzzle_count + per_page - 1) \div per_page

(* app.py lines 98-107, batch_processor.py lines 93-99: the sections of the
   sizes and difficulties from the pair numbered at on, those with count > 0 *)
RECURSIVE SectionsFrom(_, _, _)
SectionsFrom(at, counts, per_page_by_size) ==
    IF at >= Len(SIZES) * Len(DIFFICULTIES) THEN <<>>
    ELSE LET size == SIZES[(at \div Len(DIFFICULTIES)) + 1]
             difficulty == DIFFICULTIES[(at % Len(DIFFICULTIES)) + 1]
             layout == _layout_from_per_page(per_page_by_size[size])
             count == counts[size][difficulty]
         IN (IF count <= 0 THEN <<>>
             ELSE <<<<size, difficulty, count, layout[1], layout[2]>>>>)
            \o SectionsFrom(at + 1, counts, per_page_by_size)

(* the sum of _pages_needed over the sections from index i *)
RECURSIVE PuzzlePagesFrom(_, _)
PuzzlePagesFrom(sections, i) ==
    IF i > Len(sections) THEN 0
    ELSE _pages_needed(sections[i][3], sections[i][4], sections[i][5])
         + PuzzlePagesFrom(sections, i + 1)

(* the sum of the counts of the sections from index i *)
RECURSIVE TotalPuzzlesFrom(_, _)
TotalPuzzlesFrom(sections, i) ==
    IF i > Len(sections) THEN 0
    ELSE sections[i][3] + TotalPuzzlesFrom(sections, i + 1)

(* app.py lines 94-110 *)
_compute_book_stats(counts, per_page_by_size) ==
    LET sections == SectionsFrom(0, counts, per_page_by_size)
        puzzle_pages == PuzzlePagesFrom(sections, 1)
        raw_total == puzzle_pages + puzzle_pages
    IN [sections |-> sections,
        total_puzzles |-> TotalPuzzlesFrom(sections, 1),
        raw_total |-> raw_total,
        even_pages |-> compute_even_page_count(raw_total)]

(* app.py lines 113-139: the report of the book's settings; fonts tells
   whether ensure_fonts_registered finds its fonts or raises *)
_run_preflight_for_state(book, fonts) ==
    LET stats == _compute_book_stats(book.puzzles, book.per_page)
        margins == build_margin_spec_no_bleed(stats.even_pages, book.margin_in,
                                              book.extra_gutter_in)
    IN run_preflight(stats.sections, stats.even_pages, margins, book.trim_w,
                     book.trim_h, book.include_page_numbers,
                     IF fonts THEN Some("DejaVu Sans") ELSE None,
                     IF fonts THEN None ELSE Some("No usable fonts found"))

(* pdf_utils.py lines 127-206: the PDF, by its number of pages; a page per
   started rows * cols items of every puzzle and solution section, and a
   blank one when their number is odd *)
build_interior_pdf(sections) ==
    LET total_drawn == PuzzlePagesFrom(sections, 1) + PuzzlePagesFrom(sections, 1)
    IN [pages |-> IF total_drawn % 2 = 1 THEN total_drawn + 1 ELSE total_drawn]

(* batch_processor.py lines 62-71 *)
BatchResult(name, interior_pdf, error, page_count) ==
    [name |-> name, interior_pdf |-> interior_pdf, error |-> error,
     page_count |-> page_count]

(* batch_processor.py lines 87-189: the result of one book *)
BookResult(spec) ==
    LET sections == SectionsFrom(0, spec.puzzles, spec.per_page)
        puzzle_pages == PuzzlePagesFrom(sections, 1)
        even_pages == compute_even_page_count(puzzle_pages + puzzle_pages)
    IN IF sections = <<>>
       THEN BatchResult(spec.name, None,
                        Some("No puzzles configured for this book."), 0)
       ELSE BatchResult(spec.name, Some(build_interior_pdf(sections)), None,
                        even_pages)

(* the books explored: 9x9 Easy and 16x16 Hard puzzles in numbers that give
   no page, fewer than 24 pages, 24 to 828 pages and more than 828 pages *)
MaxBooks == 2

BookCounts(easy9, hard16) ==
    [size \in Range1(SIZES) |->
        [difficulty \in Range1(DIFFICULTIES) |->
            IF size = 9 /\ difficulty = "Easy" THEN easy9
            ELSE IF size = 16 /\ difficulty = "Hard" THEN hard16
            ELSE 0]]

Books ==
    {[name |-> "Book", puzzles |-> BookCounts(easy9, hard16),
      per_page |-> [size \in Range1(SIZES) |-> per_page],
      trim_w |-> trim[1], trim_h |-> trim[2], margin_in |-> 500,
      extra_gutter_in |-> extra, include_page_numbers |-> TRUE] :
        easy9 \in {0, 10, 48, 1700}, hard16 \in {0, 48},
        per_page \in {1, 4, 9}, trim \in {<<5000, 8000>>, <<6000, 9000>>},
        extra \in {0, 125}}

BatchBooks ==
    {b \in Books : /\ b.per_page[9] = 4
                   /\ b.trim_w = 6000
                   /\ b.extra_gutter_in = 0}

InitBook ==
    /\ \E fonts \in BOOLEAN :
          \/ \E book \in Books :
                /\ input = Some([books |-> <<book>>, fonts |-> fonts])
                /\ pc = "Generate Book"
          \/ \E n \in 1..MaxBooks : \E specs \in [1..n -> BatchBooks] :
                /\ input = Some([books |-> specs, fonts |-> fonts])
                /\ pc = "process_batch"
    /\ output = None
    /\ args = NoArgs
    /\ rng = 0
    /\ Fresh

(* app.py lines 478-496: the script run that computes the report and draws
   the button, disabled unless the report has passed *)
RenderGenerateBook ==
    /\ pc = "Generate Book"
    /\ output' = Some([report |-> _run_preflight_for_state(Val(input).books[1],
                                                           Val(input).fonts),
                       interior_pdf |-> None])
    /\ pc' = "qg_generate"
    /\ KdpUnchanged

(* app.py lines 491-513 and 142-216: the button is clicked, which it can be
   when it is not disabled, and _do_generate runs *)
ClickGenerateBook ==
    /\ pc = "qg_generate"
    /\ passed(Val(output).report)
    /\ LET book == Val(input).books[1]
           stats == _compute_book_stats(book.puzzles, book.per_page)
       IN IF stats.total_puzzles = 0
          THEN output' = output
          ELSE output' = Some([Val(output) EXCEPT
                   !.interior_pdf = Some(build_interior_pdf(stats.sections))])
    /\ pc' = "_do_generate done"
    /\ KdpUnchanged

(* batch_processor.py lines 82-84: ensure_fonts_registered raises when it
   finds no font, before any book *)
StartBatch ==
    /\ pc = "process_batch"
    /\ IF Val(input).fonts
       THEN pc' = "for spec in specs" /\ output' = Some([results |-> <<>>])
       ELSE pc' = "FileNotFoundError" /\ output' = output
    /\ KdpUnchanged

(* batch_processor.py lines 86-185: one turn of the loop *)
ProcessBook ==
    /\ pc = "for spec in specs"
    /\ Len(Val(output).results) < Len(Val(input).books)
    /\ output' = Some([results |->
          Append(Val(output).results,
                 BookResult(Val(input).books[Len(Val(output).results) + 1]))])
    /\ pc' = pc
    /\ KdpUnchanged

(* batch_processor.py lines 187-190 *)
ReturnResults ==
    /\ pc = "for spec in specs"
    /\ Len(Val(output).results) >= Len(Val(input).books)
    /\ pc' = "process_batch done"
    /\ UNCHANGED output
    /\ KdpUnchanged

NextBook ==
    \/ RenderGenerateBook
    \/ ClickGenerateBook
    \/ StartBatch
    \/ ProcessBook
    \/ ReturnResults

SpecBook == InitBook /\ [][NextBook]_vars

(***************************************************************************)
(* _layout_from_per_page called on its own, on any per-page count of       *)
(* PerPageInputs, and _pages_needed on the layout it returns.              *)
(***************************************************************************)
MaxPerPage == 120

PerPageInputs == (-2)..MaxPerPage

InitLayout ==
    /\ \E per_page \in PerPageInputs : input = Some(per_page)
    /\ output = None
    /\ args = NoArgs
    /\ rng = 0
    /\ pc = "layout"
    /\ Fresh

CallLayoutFromPerPage ==
    /\ pc = "layout"
    /\ output' = Some(_layout_from_per_page(Val(input)))
    /\ pc' = "_layout_from_per_page"
    /\ KdpUnchanged

NextLayout == CallLayoutFromPerPage

SpecLayout == InitLayout /\ [][NextLayout]_vars

(* C17: build_margin_spec_no_bleed returns outside_in = top_in = bottom_in
   = max(user margin, 0.25) and inside_in = max(required inside margin of
   the page count, outside_in) + extra gutter, for every page count, user
   margin and extra gutter >= 0; page count 100, margin 0.5 and extra
   gutter 0.0 give inside_in = 0.5. *)
C17_MarginSpec ==
    pc = "build_margin_spec_no_bleed" =>
        LET a == Val(input)
            m == Val(output)
            required == required_inside_margin_no_bleed(a.page_count)
        IN /\ m.outside_in = (IF a.margin >= 250 THEN a.margin ELSE 250)
           /\ m.top_in = m.outside_in
           /\ m.bottom_in = m.outside_in
           /\ a.extra >= 0 =>
                 m.inside_in = (IF required >= m.outside_in
                                THEN required ELSE m.outside_in) + a.extra
           /\ (a.page_count = 100 /\ a.margin = 500 /\ a.extra = 0) =>
                 m.inside_in = 500

(* the margins built for 100 pages, a margin of 0.5 in and no extra
   gutter: the outside margin, wider than the gutter required, is the
   inside margin *)
C17_HundredPagesHalfInchMargin ==
    /\ pc = "build_margin_spec_no_bleed"
    /\ Val(input) = [page_count |-> 100, margin |-> 500, extra |-> 0]
    /\ required_inside_margin_no_bleed(100) < Val(output).outside_in
    /\ Val(output).inside_in = 500

(* C18, as stated: for an even page count of 100,
   required_inside_margin_no_bleed returns 0.5 in. *)
C18_HundredPagesHalfInch ==
    (pc = "required_inside_margin_no_bleed" /\ Val(input).page_count = 100)
        => Val(output) = 500

(* C18, amended: for an even page count of 100,
   required_inside_margin_no_bleed returns 0.375 in, the gutter of the
   table's row 24..150. *)
C18_HundredPagesThreeEighths ==
    (pc = "required_inside_margin_no_bleed" /\ Val(input).page_count = 100)
        => Val(output) = 375

(* the gutter required for 100 pages has been looked up and is below
   0.5 in *)
C18_HundredPagesLookedUp ==
    /\ pc = "required_inside_margin_no_bleed"
    /\ Val(input).page_count = 100
    /\ Val(output) < 500

(* C19: required_inside_margin_no_bleed returns, for a page count of
   24..828, the gutter of the one table row whose range contains it, and for
   every page count outside the table (below 24, zero and negative counts
   included, or above 828) the table's maximum gutter 0.875 in. *)
C19_GutterOfRowOrMaximum ==
    pc = "required_inside_margin_no_bleed" =>
        LET n == Val(input).page_count
            rows == {i \in 1..Len(KDP_INSIDE_GUTTER_TABLE) :
                        /\ KDP_INSIDE_GUTTER_TABLE[i][1] <= n
                        /\ n <= KDP_INSIDE_GUTTER_TABLE[i][2]}
        IN IF n >= 24 /\ n <= 828
           THEN /\ Cardinality(rows) = 1
                /\ \A i \in rows : Val(output) = KDP_INSIDE_GUTTER_TABLE[i][3]
           ELSE Val(output) = 875

(* the gutter required for a page count of zero or less is 0.0 in *)
C19_NoGutterForNoPages ==
    /\ pc = "required_inside_margin_no_bleed"
    /\ Val(input).page_count <= 0
    /\ Val(output) = 0

(* C20: compute_even_page_count(n) is 0 when n <= 0 and otherwise the
   smallest even integer >= n; the result is always even and >= 0, and the
   function applied to its own result returns that result. *)
C20_EvenPageCount ==
    /\ pc = "compute_even_page_count" =>
          LET n == Val(input).page_count
              r == Val(output)
          IN /\ n <= 0 => r = 0
             /\ n > 0 => /\ r >= n
                         /\ r % 2 = 0
                         /\ \A e \in n..r : e % 2 = 0 => e = r
             /\ r % 2 = 0
             /\ r >= 0
    /\ pc = "compute_even_page_count twice" =>
          Val(output) = compute_even_page_count(Val(input).page_count)

(* an odd page count rounded up, and the function applied again to the
   result *)
C20_OddRoundedUpTwice ==
    /\ pc = "compute_even_page_count twice"
    /\ Val(input).page_count = 23
    /\ Val(output) = 24

(* the messages of a list of errors *)
Messages(errors) == {errors[i].msg : i \in 1..Len(errors)}

(* C16: run_preflight records a page-count error exactly when the even
   page count is below 24 or above 828, and report.passed is true exactly
   when the report has no error at all, whatever its warnings and info. *)
C16_PageCountErrorAndPassed ==
    pc = "run_preflight" =>
        LET n == Val(input).total_pages_even
            report == Val(output).report
        IN /\ "KDP paperback minimum is 24 pages. Increase puzzle counts."
                  \in Messages(report.errors) <=> n < 24
           /\ "KDP paperback maximum is 828 pages. Reduce puzzle counts."
                  \in Messages(report.errors) <=> n > 828
           /\ Val(output).passed <=> report.errors = <<>>

(* a report for 828 pages that carries an info line and no error, and has
   passed *)
C16_PassedWithInfo ==
    /\ pc = "run_preflight"
    /\ Val(input).total_pages_even = 828
    /\ Val(output).report.info # <<>>
    /\ Val(output).report.errors = <<>>
    /\ Val(output).passed

(* the interior PDFs made so far, each with the book it was made for *)
InteriorPdfs ==
    IF output = None THEN {}
    ELSE IF pc \in {"qg_generate", "_do_generate done"}
    THEN IF Val(output).interior_pdf # None
         THEN {[book |-> Val(input).books[1], pdf |-> Val(Val(output).interior_pdf)]}
         ELSE {}
    ELSE {[book |-> Val(input).books[i],
           pdf |-> Val(Val(output).results[i].interior_pdf)] :
             i \in {j \in 1..Len(Val(output).results) :
                      Val(output).results[j].interior_pdf # None}}

(* C15: no interior PDF is generated for a book while its preflight report
   contains an error, neither by the Generate Book button of the UI nor by
   process_batch for any of its books. *)
C15_NoPdfWhilePreflightError ==
    \A made \in InteriorPdfs :
        _run_preflight_for_state(made.book, Val(input).fonts).errors = <<>>

(* process_batch has returned an interior PDF of 6 pages for a book whose
   preflight report holds the error of the 24-page minimum *)
C15_BatchPdfBelowMinimum ==
    /\ pc = "process_batch done"
    /\ \E made \in InteriorPdfs :
          /\ made.pdf.pages = 6
          /\ "KDP paperback minimum is 24 pages. Increase puzzle counts."
                \in Messages(_run_preflight_for_state(made.book,
                                                      Val(input).fonts).errors)

(* C21: for every requested per-page count n, _layout_from_per_page returns
   rows = floor(sqrt(max(1, n))) and cols = ceil(max(1, n) / rows), with
   rows >= 1, cols >= 1 and rows * cols >= max(1, n); 4 gives (2, 2) and 5
   gives (2, 3). *)
C21_LayoutFromPerPage ==
    pc = "_layout_from_per_page" =>
        LET n == Val(input)
            m == IF n >= 1 THEN n ELSE 1
            rows == Val(output)[1]
            cols == Val(output)[2]
        IN /\ rows * rows <= m
           /\ (rows + 1) * (rows + 1) > m
           /\ cols * rows >= m
           /\ (cols - 1) * rows < m
           /\ rows >= 1
           /\ cols >= 1
           /\ n = 4 => Val(output) = <<2, 2>>
           /\ n = 5 => Val(output) = <<2, 3>>

(* the layout of 5 per page: two rows of three *)
C21_FivePerPage ==
    /\ pc = "_layout_from_per_page"
    /\ Val(input) = 5
    /\ Val(output) = <<2, 3>>

(* C22: after every call of count_solutions, whether it returns a count or
   reports budget-exceeded, the grid passed in holds the cell values it held
   before the call. *)
C22_GridRestored ==
    pc = "called" =>
        \A q \in SolverCalls : Val(output)[q].grid = Val(input).grid

(* a call that reported budget-exceeded and left a digit in a cell that was
   empty before the call, while the same grid searched without node limit
   came back unchanged *)
C22_DigitLeftBehind ==
    /\ pc = "called"
    /\ Unlimited.grid = Val(input).grid
    /\ \E n \in 1..MaxNodeLimit :
          /\ Limited(n).ret = None
          /\ \E p \in Cells(Val(input).spec) :
                /\ Val(input).grid[p[1]][p[2]] = 0
                /\ Limited(n).grid[p[1]][p[2]] # 0

(***************************************************************************)
(* count_solutions step by step, lines 193-261: every invocation of        *)
(* _count_solutions is a step of its own.  input is the call               *)
(* [spec, grid, limit, node_limit]; output is [st, stack, ret]: st the     *)
(* grid, the masks and the counter all invocations share, stack the        *)
(* invocations that are inside their while loop, innermost last, each with *)
(* its locals [r, c, mask, val, count] (val the digit it has placed, 0     *)
(* before the first), and ret the value of the last return (None before    *)
(* it, and for the None count_solutions returns).                          *)
(***************************************************************************)
MaxGivens == 3

RECURSIVE WithGivens(_, _)
WithGivens(spec, n) ==
    IF n = 0 THEN {AllZero(spec)}
    ELSE LET fewer == WithGivens(spec, n - 1)
         IN fewer \cup
            UNION {{[g EXCEPT ![p[1]][p[2]] = v] :
                       v \in {w \in 1..spec.size :
                                /\ g[p[1]][p[2]] = 0
                                /\ w \notin Seen(g, spec, p[1], p[2])}} :
                   g \in fewer, p \in Cells(spec)}

(* the grid with its last n cells emptied *)
WithoutLast(grid, spec, n) ==
    [r \in 0..(spec.size - 1) |-> [c \in 0..(spec.size - 1) |->
        IF r * spec.size + c >= spec.size * spec.size - n THEN 0 ELSE grid[r][c]]]

SearchGrids(spec) ==
    IF spec.size < 4 THEN WithGivens(spec, MaxGivens)
    ELSE {AllZero(spec)}
           \cup {WithoutLast(g, spec, MaxEmpty) : g \in SolverGrids(spec)}

InitSearch ==
    /\ \E sp \in {SudokuSpec(2, 1, 2), SudokuSpec(3, 1, 3), SudokuSpec(4, 2, 2)} :
        \E g \in SearchGrids(sp), node_limit \in {None, Some(MaxNodeBudget)} :
           input = Some([spec |-> sp, grid |-> g, limit |-> 2,
                         node_limit |-> node_limit])
    /\ output = None
    /\ args = NoArgs
    /\ rng = 0
    /\ pc = "count_solutions"
    /\ Fresh

SearchUnchanged ==
    /\ UNCHANGED <<args, rng, now, policy, first, input>>
    /\ UNCHANGED <<batchVars, tryVars, sweepVars, ghostVars>>

(* lines 244-249: the masks and the counter are set up and
   _count_solutions is called *)
CallCountSolutions ==
    /\ pc = "count_solutions"
    /\ LET m == _init_masks(Val(input).grid, Val(input).spec)
       IN output' = [st |-> [grid |-> Val(input).grid,
                             row_mask |-> m.row_mask, col_mask |-> m.col_mask,
                             box_mask |-> m.box_mask,
                             node_counter |-> 0, calls |-> 0],
                     stack |-> <<>>,
                     ret |-> None]
    /\ pc' = "_count_solutions"
    /\ SearchUnchanged

(* lines 204-215: an invocation begins: the node budget, the choice of a
   cell, and the returns that come before the loop *)
EnterNode ==
    /\ pc = "_count_solutions"
    /\ LET node_limit == Val(input).node_limit
           spec == Val(input).spec
           st1 == IF node_limit # None
                  THEN [output.st EXCEPT !.node_counter = @ + 1, !.calls = @ + 1]
                  ELSE [output.st EXCEPT !.calls = @ + 1]
       IN IF node_limit # None /\ st1.node_counter > Val(node_limit)
          THEN /\ output' = [output EXCEPT !.st = st1]
               /\ pc' = "SearchBudgetExceeded"
          ELSE LET choice == _select_cell(st1, spec, 1..spec.size)
               IN IF choice = None
                  THEN /\ output' = [output EXCEPT !.st = st1, !.ret = Some(1)]
                       /\ pc' = "return"
                  ELSE IF Val(choice).mask = {}
                  THEN /\ output' = [output EXCEPT !.st = st1, !.ret = Some(0)]
                       /\ pc' = "return"
                  ELSE /\ output' =
                            [output EXCEPT
                               !.st = st1,
                               !.stack = Append(@, [r |-> Val(choice).r,
                                                    c |-> Val(choice).c,
                                                    mask |-> Val(choice).mask,
                                                    val |-> 0, count |-> 0])]
                       /\ pc' = "while mask"
    /\ SearchUnchanged

(* lines 216-224 and 241: the loop test of the innermost invocation: the
   next digit is placed and _count_solutions is called, or the loop is over
   and count is returned *)
NextDigit ==
    /\ pc = "while mask"
    /\ LET top == output.stack[Len(output.stack)]
       IN IF top.mask = {}
          THEN /\ output' = [output EXCEPT
                               !.stack = SubSeq(@, 1, Len(@) - 1),
                               !.ret = Some(top.count)]
               /\ pc' = "return"
          ELSE LET val == Min(top.mask)
               IN /\ output' =
                        [output EXCEPT
                           !.st = Place(@, Val(input).spec, top.r, top.c, val),
                           !.stack[Len(output.stack)] =
                               [top EXCEPT !.mask = @ \ {val}, !.val = val]]
                  /\ pc' = "_count_solutions"
    /\ SearchUnchanged

(* lines 224-240: the recursive call has returned to the innermost
   invocation: its value is added, the digit is taken off, and count is
   returned when it has reached limit *)
AfterCall ==
    /\ pc = "return"
    /\ output.stack # <<>>
    /\ LET top == output.stack[Len(output.stack)]
           st2 == Unplace(output.st, Val(input).spec, top.r, top.c, top.val)
           count2 == top.count + Val(output.ret)
       IN IF count2 >= Val(input).limit
          THEN /\ output' = [output EXCEPT
                               !.st = st2,
                               !.stack = SubSeq(@, 1, Len(@) - 1),
                               !.ret = Some(count2)]
               /\ pc' = "return"
          ELSE /\ output' = [output EXCEPT
                               !.st = st2,
                               !.stack[Len(output.stack)] =
                                   [top EXCEPT !.count = count2]]
               /\ pc' = "while mask"
    /\ SearchUnchanged

(* lines 248-259: the outermost invocation has returned: count_solutions
   returns its value *)
ReturnCount ==
    /\ pc = "return"
    /\ output.stack = <<>>
    /\ pc' = "returned"
    /\ UNCHANGED output
    /\ SearchUnchanged

(* lines 260-261: SearchBudgetExceeded has left every invocation, none of
   which restores anything on the way out, and count_solutions returns
   None *)
CatchBudgetExceeded ==
    /\ pc = "SearchBudgetExceeded"
    /\ output' = [output EXCEPT !.stack = <<>>, !.ret = None]
    /\ pc' = "returned"
    /\ SearchUnchanged

NextSearch ==
    \/ CallCountSolutions
    \/ EnterNode
    \/ NextDigit
    \/ AfterCall
    \/ ReturnCount
    \/ CatchBudgetExceeded

SpecSearch == InitSearch /\ [][NextSearch]_vars

(* what count_solutions has returned, as the operator of the same name
   gives it *)
Returns ==
    [ret |-> output.ret, grid |-> output.st.grid, calls |-> output.st.calls]

(* the step-by-step search returns what the operator count_solutions does *)
SearchAgrees ==
    pc = "returned" =>
        Returns = count_solutions(Val(input).grid, Val(input).spec,
                                  Val(input).limit, Val(input).node_limit)

(***************************************************************************)
(* The calls of generate_puzzle and of count_solutions, run to their end:  *)
(* the program is one thread, and a step that can be taken is taken.       *)
(***************************************************************************)
InitRuns == InitGeneratePuzzle \/ InitSearch

NextRuns == NextGeneratePuzzle \/ NextSearch

(* the steps of NextGeneratePuzzle as they show on pc and k: each of its
   steps is one of these moves, and one of these moves is possible exactly
   where one of its steps is: the loop heads of lines 305 and 275, the
   break of lines 276-280, the returns of lines 292, 325 and 329 *)
GeneratePuzzleMoves ==
    \/ /\ pc = "try"
       /\ tries < Val(policy).max_tries
       /\ pc' = "sweep" /\ k' = 0
    \/ /\ pc = "try"
       /\ tries >= Val(policy).max_tries
       /\ pc' = "emit" /\ k' = k
    \/ /\ pc = "sweep"
       /\ k < ListLen(positions)
       /\ \/ pc' = "swept" /\ k' = k
          \/ pc' = "sweep" /\ k' = k + 1
    \/ /\ pc = "sweep"
       /\ k >= ListLen(positions)
       /\ pc' = "swept" /\ k' = k
    \/ /\ pc = "swept"
       /\ pc' \in {"try", "emit"} /\ k' = k

SpecRunsToEnd ==
    /\ InitRuns
    /\ [][NextRuns]_vars
    /\ WF_vars(NextSearch)
    /\ WF_<<pc, k>>(GeneratePuzzleMoves)

(* the step is a visit of _remove_numbers that makes a tentative removal *)
RemovalVisit ==
    /\ pc = "sweep"
    /\ k < ListLen(positions)
    /\ k' = k + 1
    /\ clues - 1 >= target

(* what count_solutions returns for the tentative removal at positions[k] *)
RemovalCount ==
    count_solutions([puzzle EXCEPT ![positions[k][1]][positions[k][2]] = 0],
                    args.spec, 2, Val(policy).node_limit).ret

(* the states generate_puzzles can be in: none of them is an escaped
   SearchBudgetExceeded *)
ControlStates ==
    {"start", "ValueError", "batch", "try", "sweep", "swept", "emit",
     "TypeError", "done"}

(* C23: when the solver reports budget-exceeded for a tentative removal,
   _remove_numbers puts the original digit back in that cell, leaves the
   clue count unchanged and adds exactly one to budget_hits; budget_hits
   counts the solver calls of the attempt that reported budget-exceeded
   (it starts at 0 and grows by one with each of them and with nothing
   else); the signal never leaves generate_puzzles as an error. *)
C23_BudgetHitRestores ==
    [][/\ (RemovalVisit /\ RemovalCount = None) =>
             /\ puzzle'[positions[k][1]][positions[k][2]]
                   = puzzle[positions[k][1]][positions[k][2]]
             /\ clues' = clues
             /\ _count_clues(puzzle') = _count_clues(puzzle)
             /\ budget_hits' = budget_hits + 1
       /\ (RemovalVisit /\ RemovalCount # None) => budget_hits' = budget_hits
       /\ (pc = "sweep" /\ ~RemovalVisit) => budget_hits' = budget_hits
       /\ pc' = "sweep" /\ pc # "sweep" => budget_hits' = 0
       /\ pc' \in ControlStates]_vars

(* a sweep in which a budget-exceeded removal has been handled and the
   puzzle holds more digits than the clue count says *)
C23_MoreDigitsAfterBudgetHit ==
    /\ pc = "sweep"
    /\ budget_hits = 1
    /\ ~timed_out
    /\ _count_clues(puzzle) > clues

(* the attempts generate_puzzle has made for the puzzle in hand *)
Attempts == history[Len(history)]

(* the first of the attempts that is as close to the target as any *)
EarliestClosest ==
    Attempts[Min({i \in 1..Len(Attempts) :
                    \A j \in 1..Len(Attempts) :
                        Diff(Attempts[i].clues, target)
                            <= Diff(Attempts[j].clues, target)})]

(* C24: generate_puzzle with max_tries >= 1 makes at most max_tries
   attempts; an attempt that ends on the target is returned at once, whole
   and with no further random draw, and every attempt before it missed the
   target; otherwise the attempt returned is the closest to the target of
   all the attempts made, the earliest of them on ties; puzzle, solution,
   clue count and meta returned are those of that one attempt. *)
C24_ReturnsFirstExactOrEarliestClosest ==
    /\ [](pc \in {"try", "sweep", "swept", "emit"} /\ Val(policy).max_tries >= 1 =>
            /\ tries <= Val(policy).max_tries
            /\ Len(Attempts) <= tries
            /\ pc = "emit" =>
                 /\ outcome # None
                 /\ Len(Attempts) = tries
                 /\ \A i \in 1..(tries - 1) : Attempts[i].clues # target
                 /\ IF Attempts[tries].clues = target
                    THEN Val(outcome) = Attempts[tries] /\ Val(outcome).exact
                    ELSE /\ tries = Val(policy).max_tries
                         /\ Val(outcome) = EarliestClosest
                         /\ ~Val(outcome).exact)
    /\ [][pc = "swept" /\ clues = target =>
            /\ pc' = "emit"
            /\ rng' = rng
            /\ outcome' = Some(Outcome(puzzle, solution, clues, TRUE,
                                       budget_hits, timed_out))]_vars

(* two attempts equally far from the target, with different puzzles: the
   first is the one returned *)
C24_TieReturnsFirst ==
    /\ pc = "emit"
    /\ outcome # None
    /\ Len(Attempts) = 2
    /\ Attempts[1] # Attempts[2]
    /\ Diff(Attempts[1].clues, target) = Diff(Attempts[2].clues, target)
    /\ Val(outcome) = Attempts[1]

(* generate_puzzle has returned (SpecGeneratePuzzle) or is about to hand
   its result to generate_puzzles (Spec) *)
PuzzleReturned == pc = "emit"

(* C25: with a deadline, the clock is read before each cell visit and not
   while the solver runs: a visit that finds the deadline passed changes no
   cell, ends the sweep and makes the attempt report timed_out = TRUE, and
   a visit that finds it not passed runs to its end without setting
   timed_out; without a deadline timed_out is never reported; with a time
   budget of zero and a target below size*size no clue is removed and
   generate_puzzle (max_tries >= 1) returns a non-exact outcome with
   timed_out = TRUE and size*size clues. *)
C25_DeadlineCheckedBeforeEachVisit ==
    /\ [][/\ (pc = "sweep" /\ k < ListLen(positions) /\ deadline_ts # None
                 /\ now' >= Val(deadline_ts)) =>
               /\ timed_out'
               /\ pc' = "swept"
               /\ puzzle' = puzzle
               /\ clues' = clues
          /\ (pc = "sweep" /\ k < ListLen(positions)
                 /\ (deadline_ts = None \/ now' < Val(deadline_ts))) =>
               /\ ~timed_out'
               /\ (clues > target =>
                     /\ k' = k + 1
                     /\ puzzle' # puzzle \/ clues' = clues)
          /\ (pc = "swept" /\ timed_out) =>
               /\ Attempts'[Len(Attempts')].meta.timed_out
               /\ Attempts'[Len(Attempts')].puzzle = puzzle
               /\ Attempts'[Len(Attempts')].clues = clues]_vars
    /\ [](pc \in {"sweep", "swept"} /\ deadline_ts = None => ~timed_out)
    /\ [](Val(policy).time_limit_sec = None =>
            /\ \A i \in 1..Len(Attempts) : ~Attempts[i].meta.timed_out
            /\ outcome # None => ~Val(outcome).meta.timed_out)
    /\ [](/\ Val(policy).time_limit_sec = Some(0)
          /\ target < args.spec.size * args.spec.size
          /\ Val(policy).max_tries >= 1
          => /\ pc \in {"sweep", "swept"} =>
                  puzzle = solution /\ clues = args.spec.size * args.spec.size
             /\ PuzzleReturned =>
                  /\ outcome # None
                  /\ ~Val(outcome).exact
                  /\ Val(outcome).meta.timed_out
                  /\ Val(outcome).clues = args.spec.size * args.spec.size
                  /\ Val(outcome).puzzle = Val(outcome).solution)

(* generate_puzzle has returned from a call with a time budget of zero and
   a target below size*size *)
C25_ZeroBudgetReturned ==
    /\ PuzzleReturned
    /\ Val(policy).time_limit_sec = Some(0)
    /\ target < args.spec.size * args.spec.size
    /\ outcome # None
    /\ Val(outcome).meta.timed_out
    /\ Val(outcome).clues = args.spec.size * args.spec.size

(* C26: in a reduction that starts from a full grid with
   target_clues <= size*size, the reported clue count is never below
   target_clues: a visit takes at most one clue off, each position of the
   grid is visited at most once, and the first visit that finds the count
   at the target ends the sweep with nothing changed; so in every attempt
   and in the value returned, exact is TRUE exactly when the clue count is
   target_clues. *)
C26_CluesNeverBelowTarget ==
    /\ [](pc \in {"sweep", "swept"} /\ target <= args.spec.size * args.spec.size =>
            /\ clues >= target
            /\ clues <= args.spec.size * args.spec.size
            /\ k <= args.spec.size * args.spec.size
            /\ ListLen(positions) = args.spec.size * args.spec.size
            /\ \A i, j \in DOMAIN positions : positions[i] = positions[j] => i = j)
    /\ [](pc \in {"try", "sweep", "swept", "emit"}
          /\ target <= args.spec.size * args.spec.size =>
            /\ \A i \in 1..Len(Attempts) :
                  /\ Attempts[i].clues >= target
                  /\ Attempts[i].exact <=> Attempts[i].clues = target
            /\ outcome # None =>
                  /\ Val(outcome).clues >= target
                  /\ Val(outcome).exact <=> Val(outcome).clues = target)
    /\ [][pc = "sweep" /\ target <= args.spec.size * args.spec.size =>
            /\ clues' \in {clues - 1, clues}
            /\ k' \in {k, k + 1}
            /\ clues' # clues => k' = k + 1
            /\ positions' = positions
            /\ clues = target =>
                  /\ pc' = "swept"
                  /\ puzzle' = puzzle
                  /\ clues' = clues]_vars

(* a sweep that has stopped on the target before the last position, after
   taking clues off a full grid *)
C26_StoppedOnTarget ==
    /\ pc = "swept"
    /\ ~timed_out
    /\ clues = target
    /\ clues < args.spec.size * args.spec.size
    /\ k < ListLen(positions)

(* the reason the claim gives for a meta *)
ReasonOf(meta) ==
    CASE meta.timed_out /\ meta.budget_hits > 0 -> "time limit + solver budget"
      [] meta.timed_out /\ meta.budget_hits = 0 -> "time limit"
      [] ~meta.timed_out /\ meta.budget_hits > 0 -> "solver budget"
      [] OTHER -> "clue-target drift"

(* C27: for every puzzle that is not exact, the reason passed to warn_cb
   follows from the meta of the attempt returned for that puzzle alone
   ("time limit + solver budget", "time limit", "solver budget" or
   "clue-target drift"), and the target and the achieved count passed with
   it are those of that puzzle. *)
C27_WarnReasonFromReturnedMeta ==
    /\ [](\A p \in WarnCalls :
            /\ events[p].index \in 1..Len(returned)
            /\ ~returned[events[p].index].exact
            /\ events[p].reason = ReasonOf(returned[events[p].index].meta)
            /\ events[p].clues = returned[events[p].index].clues
            /\ \E a \in 1..Len(history[events[p].index]) :
                  history[events[p].index][a] = returned[events[p].index])
    /\ [][pc = "emit" /\ outcome # None /\ ~Val(outcome).exact =>
            /\ Len(events') = Len(events) + 2
            /\ events'[Len(events) + 1] =
                  [cb |-> "warn", index |-> idx + 1, target |-> target,
                   clues |-> Val(outcome).clues,
                   reason |-> ReasonOf(Val(outcome).meta)]
            /\ returned' = Append(returned, Val(outcome))]_vars

(* a warning for a puzzle whose attempt ran out of time after the solver
   had run out of budget *)
C27_TimeLimitAndBudgetWarned ==
    \E p \in WarnCalls :
        /\ events[p].reason = "time limit + solver budget"
        /\ returned[events[p].index].meta.timed_out
        /\ returned[events[p].index].meta.budget_hits > 0

(* the number of empty cells of a grid *)
Empties(grid) ==
    Cardinality({p \in (DOMAIN grid) \X (DOMAIN grid) : grid[p[1]][p[2]] = 0})

(* count_solutions is running *)
Searching == pc \in {"_count_solutions", "while mask", "return", "SearchBudgetExceeded"}

(* the invocations of _count_solutions that have a digit on the grid *)
Placed ==
    {i \in 1..Len(output.stack) :
        output.st.grid[output.stack[i].r][output.stack[i].c] # 0}

(* C28: every call of count_solutions returns: each invocation in its loop
   holds one cell of its own that was empty in the caller's grid, so the
   invocations are never more than the empty cells of that grid; every
   sweep ends, each visit ending it or moving to the next of the size*size
   positions; and generate_puzzle returns after at most max_tries attempts;
   all this with and without node and time budgets. *)
C28_EveryCallEnds ==
    /\ [](Searching =>
            /\ Len(output.stack) <= Empties(Val(input).grid)
            /\ Empties(output.st.grid) = Empties(Val(input).grid) - Cardinality(Placed)
            /\ \A i, j \in 1..Len(output.stack) :
                  /\ Val(input).grid[output.stack[i].r][output.stack[i].c] = 0
                  /\ i < j => /\ i \in Placed
                              /\ <<output.stack[i].r, output.stack[i].c>>
                                    # <<output.stack[j].r, output.stack[j].c>>)
    /\ [](pc \in {"sweep", "swept"} =>
            /\ k <= args.spec.size * args.spec.size
            /\ ListLen(positions) = args.spec.size * args.spec.size)
    /\ [](pc \in {"try", "sweep", "swept", "emit"} =>
            /\ tries <= Val(policy).max_tries
            /\ Len(Attempts) <= Val(policy).max_tries)
    /\ [][pc = "sweep" => pc' = "swept" \/ k' = k + 1]_vars
    /\ [][pc = "swept" => Len(Attempts') = tries]_vars
    /\ (pc = "count_solutions" ~> pc = "returned")
    /\ (pc = "sweep" ~> pc = "swept")
    /\ (pc = "try" ~> pc = "emit")

(* the search at its deepest, with no node budget: as many invocations in
   their loops as the grid had empty cells, and count_solutions entered
   once more *)
C28_DeepestRecursion ==
    /\ pc = "_count_solutions"
    /\ Val(input).node_limit = None
    /\ Empties(Val(input).grid) >= MaxEmpty
    /\ Len(output.stack) = Empties(Val(input).grid)

(* the errors of a report about the outside and the inside margin *)
MarginErrors(report) ==
    {e \in 1..Len(report.errors) :
        report.errors[e].msg \in
            {"Outside/Top/Bottom margin is below 0.25 in.",
             "Inside (gutter) margin is below KDP requirement"}}

(* C29: for every page count, user margin and extra gutter, those below
   the KDP minimum and negative ones included, the margins returned by
   build_margin_spec_no_bleed have outside_in >= 0.25,
   inside_in >= outside_in and
   inside_in >= required_inside_margin_no_bleed(page_count), and
   run_preflight given those margins and that page count records no error
   about the outside or the inside margin. *)
C29_BuiltMarginsPassMarginChecks ==
    /\ pc = "build_margin_spec_no_bleed" =>
          /\ Val(output).outside_in >= KDP_MIN_OUTSIDE_TOP_BOTTOM_IN
          /\ Val(output).inside_in >= Val(output).outside_in
          /\ Val(output).inside_in
                >= required_inside_margin_no_bleed(Val(input).page_count)
    /\ pc = "run_preflight" =>
          /\ Val(output).margins =
                build_margin_spec_no_bleed(Val(input).page_count,
                                           Val(input).margin, Val(input).extra)
          /\ MarginErrors(Val(output).report) = {}

(* a report on margins built from a margin below the minimum and a
   negative extra gutter *)
C29_BelowMinimumAndNegativeGutter ==
    /\ pc = "run_preflight"
    /\ Val(input).margin < KDP_MIN_OUTSIDE_TOP_BOTTOM_IN
    /\ Val(input).extra < 0
    /\ Val(input).page_count = 100
    /\ Val(output).margins.outside_in = 250
    /\ Val(output).margins.inside_in = 375
    /\ MarginErrors(Val(output).report) = {}

(* the empty cells of the grid the search is at that have no candidate
   digit *)
DeadCells ==
    {p \in Cells(Val(input).spec) :
        /\ output.st.grid[p[1]][p[2]] = 0
        /\ Candidates(output.st, Val(input).spec, 1..Val(input).spec.size,
                      p[1], p[2]) = {}}

(* C30: at every search node of the solver, if any empty cell of the grid
   has no candidate digit, the node returns 0 at once: no digit is placed
   and no further invocation is made. *)
C30_DeadEndReturnsZero ==
    [][pc = "_count_solutions" /\ DeadCells # {} =>
          /\ pc' = "return"
          /\ output'.ret = Some(0)
          /\ output'.stack = output.stack
          /\ output'.st.grid = output.st.grid]_vars

(* a node with a dead cell at which the search, with no node budget, has
   chosen another cell and stands in that cell's loop *)
C30_SingleCandidateChosenAtDeadEnd ==
    /\ pc = "while mask"
    /\ Val(input).node_limit = None
    /\ DeadCells # {}
    /\ output.stack[Len(output.stack)].val = 0
    /\ Cardinality(output.stack[Len(output.stack)].mask) = 1

====
